---- MODULE Spec2Model ----
(***************************************************************************)
(* A model of image-cleaner-action: the ephemeral (branch / pull_request)  *)
(* run of main_ephemeral.py, the untagged sweep of main_untagged.py and    *)
(* the paginated listing of github/base.py.                                *)
(*                                                                         *)
(* Strings that the code inspects character by character (tags, branch     *)
(* names, captured regex groups) are sequences of one-character strings.   *)
(***************************************************************************)
EXTENDS FiniteSets, Integers, Sequences, TLC

VARIABLES
    pc,                        \* position of the running entry point
    entry,                     \* "ephemeral" | "untagged" | "list"
    config,                    \* Config: delete, scheme, match_regex
    error,                     \* exception that ended the run, "" if none
    active_versions,           \* api.active_versions(...) result
    pkgs_matching_re,          \* main_ephemeral: filtered versions
    all_pkgs_tags_to_version,  \* main_ephemeral: tag -> version
    branch_names,              \* names returned by the last branch listing
    pr_index,                  \* loop position in _get_tags_to_delete_pull_request
    pkgs_with_closed_pr,       \* versions collected by the pull_request scheme
    pr_fetched,                \* tag -> state of the pull request fetched for it
    pr_skipped,                \* tags for which no PR number was extracted
    tags_to_delete,            \* the deletion list (tags)
    tags_to_keep,              \* the keep-set
    delete_index,              \* loop position in the deletion loop
    registry_requests,         \* mutating requests sent to the package API
    verify_started,            \* check_tags_still_valid was called
    verify_tags,               \* the tags it was called with
    tag_to_pkgs,               \* main_untagged: tag -> version
    untagged_versions,         \* main_untagged: digest-keyed dict, insertion order
    sweep_todo,                \* kept tags not yet visited by the sweep
    sweep_skipped,             \* kept tags whose manifest fetch was skipped
    declared_refs,             \* digests listed by fetched indices (declared type)
    protected_refs,            \* digests listed by the indices the sweep went through
    initial_untagged,          \* names of the untagged versions before the sweep
    last_delete,               \* the last response to api.delete and what it led to
    l_last_page,               \* list(): last_page, 0 before the first response
    l_page_state,              \* list(): task of a page -> "created" | "inflight" | "done"
    l_results,                 \* list(): gather() result slots, one per task
    l_returned,                \* list(): the returned sequence
    l_out_of_order,            \* a page completed while a lower page was in flight
    now,                       \* the clock of the API client, int(time.time())
    server,                    \* the rate-limit state of the API
    l_hdr,                     \* request -> rate-limit headers of its response
    l_wake,                    \* request -> time its asyncio.sleep() ends
    l_error_resp,              \* the response raise_for_status() raised on
    l_logged,                  \* the statuses logged as "HTTP Error"
    l_link,                    \* list(): the Link header of the first response
    l_issued_during_sleep,     \* a page request was sent while a task slept
    v_tags,                    \* check_tags_still_valid: the kept tags, in list order
    v_tag_concurrency,         \* its tag_concurrency
    v_digest_concurrency,      \* its digest_concurrency
    v_tag_state,               \* tag -> "created" | "fetching" | "gathering" | "done"
    v_fetch,                   \* tag -> outcome and response of its manifest fetch
    v_digest,                  \* tag -> its digest tasks, each a digest and a state
    v_result,                  \* tag -> "none", or the value _check_single_tag returned
    a_now,                     \* BearerAuth: the clock, time.time()
    a_tokens,                  \* BearerAuth._tokens: scope -> CachedToken
    a_flow,                    \* request -> its path, position and locals in async_auth_flow
    a_sent,                    \* request -> the requests its flow has sent, in order
    a_next_token,              \* the number of tokens the realm has issued
    c_headers,                 \* GithubApiBase: the names of the default headers of its client
    c_closed,                  \* the client has been closed
    c_sent,                    \* the header names its requests were sent with
    current_limits             \* _main: what the poll of /rate_limit returned

runVars == <<config, active_versions, pkgs_matching_re, all_pkgs_tags_to_version,
             branch_names, pr_index, pkgs_with_closed_pr, pr_fetched, pr_skipped,
             tags_to_delete, tags_to_keep, delete_index, registry_requests,
             verify_started, verify_tags, tag_to_pkgs, untagged_versions,
             sweep_todo, sweep_skipped, declared_refs, protected_refs, initial_untagged,
             last_delete>>

listVars == <<l_last_page, l_page_state, l_results, l_returned, l_out_of_order,
              now, server, l_hdr, l_wake, l_error_resp, l_logged, l_link,
              l_issued_during_sleep>>

verifyVars == <<v_tags, v_tag_concurrency, v_digest_concurrency, v_tag_state,
    v_fetch, v_digest, v_result>>

authVars == <<a_now, a_tokens, a_flow, a_sent, a_next_token>>

sessionVars == <<c_headers, c_closed, c_sent>>

vars == <<pc, entry, error, current_limits, runVars, listVars, verifyVars, authVars, sessionVars>>

----------------------------------------------------------------------------
(* Bounds of the model *)

MaxVersions == 2
MaxBranches == 2
MaxDescriptors == 2
MaxLastPage == 12
MaxRequests == 2
MaxTicks == 2

----------------------------------------------------------------------------
(* Generic helpers *)

Range(s) == {s[i] : i \in DOMAIN s}

RECURSIVE SeqOfSet(_)
SeqOfSet(S) ==
    IF S = {} THEN {<<>>}
    ELSE UNION {{<<x>> \o r : r \in SeqOfSet(S \ {x})} : x \in S}

----------------------------------------------------------------------------
(* Python's re.match for the patterns of the model.                        *)
(* A pattern is an alternation (?:lit1(cls1)|lit2(cls2)|...): a sequence   *)
(* of alternatives, each a literal prefix followed by one capturing group  *)
(* of a character class repeated with +, or by no group at all.            *)

Digits == {"0", "1", "2", "3", "4", "5", "6", "7", "8", "9"}
Letters == {"m", "p", "q", "x"}

InClass(cls, c) ==
    CASE cls = "digit" -> c \in Digits
      [] cls = "word" -> c \in Digits \cup Letters
      [] OTHER -> FALSE

\* length of the longest prefix of s made of characters of the class (greedy +)
RECURSIVE ClassRun(_, _)
ClassRun(cls, s) ==
    IF s # <<>> /\ InClass(cls, Head(s)) THEN 1 + ClassRun(cls, Tail(s)) ELSE 0

StartsWith(s, lit) ==
    /\ Len(s) >= Len(lit)
    /\ SubSeq(s, 1, Len(lit)) = lit

NoneGroup == [null |-> TRUE, text |-> <<>>]
Group(text) == [null |-> FALSE, text |-> text]

AltMatches(alt, s) ==
    /\ StartsWith(s, alt.lit)
    /\ alt.cls # "nogroup" =>
         ClassRun(alt.cls, SubSeq(s, Len(alt.lit) + 1, Len(s))) >= 1

RECURSIVE GroupsFrom(_, _, _, _)
GroupsFrom(pattern, s, taken, i) ==
    IF i > Len(pattern) THEN <<>>
    ELSE IF pattern[i].cls = "nogroup" THEN GroupsFrom(pattern, s, taken, i + 1)
    ELSE (IF i = taken
          THEN <<Group(SubSeq(s, Len(pattern[i].lit) + 1,
                    Len(pattern[i].lit) +
                    ClassRun(pattern[i].cls,
                             SubSeq(s, Len(pattern[i].lit) + 1, Len(s)))))>>
          ELSE <<NoneGroup>>) \o GroupsFrom(pattern, s, taken, i + 1)

\* re.match(pattern, s): anchored at the start, need not consume all of s;
\* the leftmost alternative that matches is taken
ReMatch(pattern, s) ==
    LET hits == {i \in DOMAIN pattern : AltMatches(pattern[i], s)}
    IN IF hits = {} THEN [matched |-> FALSE, groups |-> <<>>]
       ELSE LET first == CHOOSE i \in hits : \A j \in hits : i <= j
            IN [matched |-> TRUE, groups |-> GroupsFrom(pattern, s, first, 1)]

\* re.fullmatch, for comparison: the whole of s has to be consumed
ReFullMatch(pattern, s) ==
    LET m == ReMatch(pattern, s)
        hits == {i \in DOMAIN pattern : AltMatches(pattern[i], s)}
        first == CHOOSE i \in hits : \A j \in hits : i <= j
        used == Len(pattern[first].lit) +
                (IF pattern[first].cls = "nogroup" THEN 0
                 ELSE ClassRun(pattern[first].cls,
                               SubSeq(s, Len(pattern[first].lit) + 1, Len(s))))
    IN IF m.matched /\ used = Len(s) THEN m
       ELSE [matched |-> FALSE, groups |-> <<>>]

\* int(x) for a captured text: the decimal value, or ValueError
DigitVal(c) ==
    CASE c = "0" -> 0 [] c = "1" -> 1 [] c = "2" -> 2 [] c = "3" -> 3
      [] c = "4" -> 4 [] c = "5" -> 5 [] c = "6" -> 6 [] c = "7" -> 7
      [] c = "8" -> 8 [] c = "9" -> 9

RECURSIVE DecimalValue(_)
DecimalValue(s) ==
    IF s = <<>> THEN 0
    ELSE 10 * DecimalValue(SubSeq(s, 1, Len(s) - 1)) + DigitVal(s[Len(s)])

ParseInt(text) ==
    IF text # <<>> /\ \A i \in DOMAIN text : text[i] \in Digits
    THEN [ok |-> TRUE, val |-> DecimalValue(text)]
    ELSE [ok |-> FALSE, val |-> 0]

\* str.lower() on the words of the model (pull-request states, flag values)
Lower(s) ==
    CASE s = "CLOSED" -> "closed"
      [] s = "Closed" -> "closed"
      [] s = "OPEN" -> "open"
      [] s = "True" -> "true"
      [] s = "TRUE" -> "true"
      [] s = "False" -> "false"
      [] OTHER -> s

\* bool(value): every non-empty string is true
CoerceAnyString(value) == value # ""

\* utils.coerce_to_bool for a flag given as a string
CoerceToBool(value) == Lower(value) \in {"true", "1"}

----------------------------------------------------------------------------
(* The inputs of the model *)

TagP1 == <<"p", "1">>
TagP2x == <<"p", "2", "x">>
TagP0 == <<"p", "0">>
TagM == <<"m">>
TagUniverse == {TagP1, TagP2x, TagP0, TagM}

\* the tags of the untagged sweep, which never looks inside a tag
SweepTags == {TagP1, TagM}

\* a fixed listing order of the tags inside one version
TagOrder(t) ==
    CASE t = TagP1 -> 1 [] t = TagP2x -> 2 [] t = TagP0 -> 3 [] t = TagM -> 4

PatDigits == <<[lit |-> <<"p">>, cls |-> "digit"]>>           \* p(\d+)
PatWord == <<[lit |-> <<"p">>, cls |-> "word"]>>              \* p(\w+)
PatAlt == <<[lit |-> <<"q">>, cls |-> "digit"],
            [lit |-> <<"p">>, cls |-> "digit"]>>              \* (?:q(\d+)|p(\d+))
PatNoGroup == <<[lit |-> <<"p">>, cls |-> "nogroup"]>>        \* p
Patterns == {PatDigits, PatWord, PatAlt, PatNoGroup}

PRStates == {"open", "closed", "CLOSED"}

DigestName(i) ==
    CASE i = 1 -> "sha256:1" [] i = 2 -> "sha256:2" [] i = 3 -> "sha256:3"
      [] i = 4 -> "sha256:4" [] OTHER -> "sha256:other"

SortedTags(S) ==
    CHOOSE s \in SeqOfSet(S) : \A i, j \in DOMAIN s : i < j => TagOrder(s[i]) < TagOrder(s[j])

\* the version lists the registry can return: ids 1..n, every version named
\* by its digest, every tag carried by at most one version
VersionLists(tags, max) ==
    UNION {
      { [i \in 1..n |-> [id |-> i, name |-> DigestName(i),
                         tags |-> SortedTags({t \in tags : owner[t] = i})]]
        : owner \in [tags -> 0..n] }
      : n \in 0..max }

----------------------------------------------------------------------------
(* ContainerPackage, GithubBranch, PullRequest, RateLimits *)

Untagged(pkg) == Len(pkg.tags) = 0

Tagged(pkg) == ~Untagged(pkg)

\* an off-by-one in the multi-tag test
MultiTaggedOffByOne(pkg) == Len(pkg.tags) > 2

MultiTagged(pkg) == Len(pkg.tags) > 1

\* re.fullmatch in place of re.match on the tags
TagMatchesFull(pkg, pattern) ==
    \E i \in DOMAIN pkg.tags : ReFullMatch(pattern, pkg.tags[i]).matched

\* lines 53-59: any(re.match(pattern, tag) is not None for tag in self.tags)
TagMatches(pkg, pattern) ==
    \E i \in DOMAIN pkg.tags : ReMatch(pattern, pkg.tags[i]).matched

\* re.fullmatch in place of re.match
BranchFullMatches(name, pattern) == ReFullMatch(pattern, name).matched

BranchMatches(name, pattern) == ReMatch(pattern, name).matched

\* the comparison without lower()
ClosedCaseSensitive(state) == state = "closed"

Closed(state) == Lower(state) = "closed"

\* limited only below zero
LimitedBelowZero(remaining) == remaining < 0

Limited(remaining) == remaining <= 0

\* _GithubContainerRegistryApiBase.delete: what a response leads to
DeleteResponses ==
    {[status |-> 204, has_remaining |-> FALSE, remaining |-> 0],
     [status |-> 403, has_remaining |-> TRUE, remaining |-> 0],
     [status |-> 403, has_remaining |-> TRUE, remaining |-> 10],
     [status |-> 403, has_remaining |-> FALSE, remaining |-> 0],
     [status |-> 404, has_remaining |-> TRUE, remaining |-> 10]}

\* every response other than 204 raises
DeleteOutcomeRaising(resp) ==
    IF resp.status # 204 THEN "RateLimitError" ELSE "ok"

DeleteOutcome(resp) ==
    IF resp.status # 204
    THEN IF resp.status = 403 /\ resp.has_remaining
         THEN (IF resp.remaining <= 0 THEN "RateLimitError" ELSE "silent")
         ELSE "warning"
    ELSE "ok"

----------------------------------------------------------------------------
(* main_ephemeral._main, step 2: the filter *)

\* the versions the loop does not skip with `continue`
Considered(pkg) == ~(Untagged(pkg) \/ MultiTagged(pkg))

\* the loop ends at the first version it should skip
PkgsMatchingReBreak(versions, pattern) ==
    LET skipped == {i \in DOMAIN versions : ~Considered(versions[i])}
        last == IF skipped = {} THEN Len(versions)
                ELSE (CHOOSE i \in skipped : \A j \in skipped : i <= j) - 1
    IN SelectSeq(SubSeq(versions, 1, last), LAMBDA pkg : TagMatches(pkg, pattern))

\* the regex test is left out
PkgsMatchingReAnyTag(versions, pattern) ==
    SelectSeq(versions, Considered)

PkgsMatchingRe(versions, pattern) ==
    SelectSeq(versions, LAMBDA pkg : Considered(pkg) /\ TagMatches(pkg, pattern))

\* a dict built by assignment in list order: the last version listed wins
TagsToVersion(versions) ==
    LET tags == UNION {Range(versions[i].tags) : i \in DOMAIN versions}
    IN [t \in tags |->
          versions[CHOOSE i \in DOMAIN versions :
                      /\ t \in Range(versions[i].tags)
                      /\ \A j \in DOMAIN versions :
                           t \in Range(versions[j].tags) => j <= i]]

\* lines 178-184: only the versions that pass the `continue` reach the dict
AllPkgsTagsToVersion(versions) == TagsToVersion(SelectSeq(versions, Considered))

----------------------------------------------------------------------------
(* _get_tag_to_delete_branch *)

PkgTagsToVersion(matched) ==
    TagsToVersion(SelectSeq(matched, LAMBDA pkg : ~MultiTagged(pkg)))

BranchesMatchingRe(names, pattern) == {b \in names : BranchMatches(b, pattern)}

BranchTagsToDelete(matched, names, pattern) ==
    DOMAIN PkgTagsToVersion(matched) \ BranchesMatchingRe(names, pattern)

----------------------------------------------------------------------------
(* _get_tags_to_delete_pull_request: one iteration of the loop *)

\* "use the first not None capture group as the PR number"
FirstGroup(groups) ==
    LET set == {i \in DOMAIN groups : ~groups[i].null}
    IN IF set = {} THEN NoneGroup
       ELSE groups[CHOOSE i \in set : \A j \in set : i <= j]

\* what the iteration does before any request is sent:
\*   "skip"  - multi-tagged or no match: continue without a warning
\*   "raise" - int(x) raised ValueError
\*   "warn"  - no PR number: warning, continue
\*   "fetch" - the pull request `number` is fetched
PrDecision(pkg, pattern) ==
    IF MultiTagged(pkg) THEN [kind |-> "skip", number |-> 0]
    ELSE LET m == ReMatch(pattern, pkg.tags[1])
             g == FirstGroup(m.groups)
             n == ParseInt(g.text)
         IN IF ~m.matched THEN [kind |-> "skip", number |-> 0]
            ELSE IF g.null THEN [kind |-> "warn", number |-> 0]
            ELSE IF ~n.ok THEN [kind |-> "raise", number |-> 0]
            ELSE IF n.val # 0 THEN [kind |-> "fetch", number |-> n.val]
            ELSE [kind |-> "warn", number |-> 0]

----------------------------------------------------------------------------
(* Initial states *)

EmptyMap == <<>>

InitList ==
    /\ l_last_page = 0
    /\ l_page_state = EmptyMap
    /\ l_results = EmptyMap
    /\ l_returned = <<>>
    /\ l_out_of_order = FALSE
    /\ l_hdr = EmptyMap
    /\ l_wake = EmptyMap
    /\ l_error_resp = [status |-> 0, has_remaining |-> FALSE, remaining |-> 0]
    /\ l_logged = {}
    /\ l_link = <<>>
    /\ l_issued_during_sleep = FALSE
    /\ c_headers = {"Accept", "Authorization", "X-GitHub-Api-Version"}
    /\ c_closed = FALSE
    /\ c_sent = {}

InitRun ==
    /\ error = ""
    /\ current_limits = [polled |-> FALSE, remaining |-> 0]
    /\ active_versions = <<>>
    /\ pkgs_matching_re = <<>>
    /\ all_pkgs_tags_to_version = EmptyMap
    /\ branch_names = {}
    /\ pr_index = 0
    /\ pkgs_with_closed_pr = <<>>
    /\ pr_fetched = EmptyMap
    /\ pr_skipped = {}
    /\ tags_to_delete = <<>>
    /\ tags_to_keep = {}
    /\ delete_index = 0
    /\ registry_requests = <<>>
    /\ verify_started = FALSE
    /\ verify_tags = {}
    /\ tag_to_pkgs = EmptyMap
    /\ untagged_versions = <<>>
    /\ sweep_todo = {}
    /\ sweep_skipped = {}
    /\ declared_refs = {}
    /\ protected_refs = {}
    /\ initial_untagged = {}
    /\ last_delete = [status |-> 0, has_remaining |-> FALSE, remaining |-> 0,
                      outcome |-> "none", after_failure |-> FALSE]

\* no API client operation is running
IdleClient ==
    /\ now = 0
    /\ server = [remaining |-> 0, sends_remaining |-> FALSE, reset |-> 0, statuses |-> {}]

\* check_tags_still_valid is not running
IdleVerifier ==
    /\ v_tags = <<>>
    /\ v_tag_concurrency = 0
    /\ v_digest_concurrency = 0
    /\ v_tag_state = EmptyMap
    /\ v_fetch = EmptyMap
    /\ v_digest = EmptyMap
    /\ v_result = EmptyMap

\* no registry request is under way
IdleAuth ==
    /\ a_now = 0
    /\ a_tokens = EmptyMap
    /\ a_flow = EmptyMap
    /\ a_sent = EmptyMap
    /\ a_next_token = 0

\* the values of --delete, --scheme and --match-regex
DeleteArgs == {"True", "true", "false"}

\* Config.__init__ of main_ephemeral
EphemeralConfig(delete_arg, scheme, match_regex) ==
    [delete_arg |-> delete_arg, delete |-> CoerceToBool(delete_arg),
     scheme |-> scheme, match_regex |-> match_regex]

\* Config.__init__ of main_untagged
UntaggedConfig(delete_arg) ==
    [delete_arg |-> delete_arg, delete |-> CoerceToBool(delete_arg),
     scheme |-> "", match_regex |-> <<>>]

Init ==
    /\ pc = "ratelimit"
    /\ \/ /\ entry = "ephemeral"
          /\ \E d \in DeleteArgs, sch \in {"branch", "pull_request"}, re \in Patterns :
                config = EphemeralConfig(d, sch, re)
       \/ /\ entry = "untagged"
          /\ \E d \in DeleteArgs : config = UntaggedConfig(d)
    /\ InitRun
    /\ InitList
    /\ IdleClient
    /\ IdleVerifier
    /\ IdleAuth

----------------------------------------------------------------------------
(* Steps shared by both entry points *)

Fail(exc) ==
    /\ pc' = "failed"
    /\ error' = exc

\* step 0: poll /rate_limit once; return when limited
CheckRateLimit ==
    /\ pc = "ratelimit"
    /\ entry \in {"ephemeral", "untagged"}
    /\ \/ \E remaining \in {0, 1} :
            /\ current_limits' = [polled |-> TRUE, remaining |-> remaining]
            /\ pc' = IF Limited(remaining) THEN "done_limited" ELSE "gather"
            /\ error' = error
       \/ Fail("HTTPStatusError") /\ UNCHANGED current_limits
    /\ UNCHANGED <<entry, runVars, listVars, verifyVars, authVars, sessionVars>>

\* step 1 of main_ephemeral: api.active_versions(package_name)
GatherEphemeral ==
    /\ pc = "gather"
    /\ entry = "ephemeral"
    /\ \/ \E versions \in VersionLists(TagUniverse, MaxVersions) :
            /\ active_versions' = versions
            /\ pc' = "filter"
            /\ error' = error
       \/ Fail("HTTPStatusError") /\ UNCHANGED active_versions
    /\ UNCHANGED <<entry, current_limits, config, pkgs_matching_re, all_pkgs_tags_to_version,
                   branch_names, pr_index, pkgs_with_closed_pr, pr_fetched, pr_skipped,
                   tags_to_delete, tags_to_keep, delete_index, registry_requests,
                   verify_started, verify_tags, tag_to_pkgs, untagged_versions,
                   sweep_todo, sweep_skipped, declared_refs, protected_refs, initial_untagged,
                   listVars, last_delete, verifyVars, authVars, sessionVars>>

\* step 5 / step 4: the confirmation step runs only with the delete flag set
AfterDelete ==
    /\ pc = "afterdelete"
    /\ IF config.delete
       THEN /\ verify_started' = TRUE
            /\ verify_tags' = tags_to_keep
            /\ pc' = "verifying"
       ELSE /\ UNCHANGED <<verify_started, verify_tags>>
            /\ pc' = "done"
    /\ UNCHANGED <<entry, current_limits, error, config, active_versions, pkgs_matching_re,
                   all_pkgs_tags_to_version, branch_names, pr_index,
                   pkgs_with_closed_pr, pr_fetched, pr_skipped, tags_to_delete,
                   tags_to_keep, delete_index, registry_requests, tag_to_pkgs,
                   untagged_versions, sweep_todo, sweep_skipped, declared_refs,
                   protected_refs,
                   initial_untagged, listVars, last_delete,
                   verifyVars, authVars, sessionVars>>

\* check_tags_still_valid returns, or raises when a tag failed
VerifyReturns ==
    /\ pc = "verifying"
    /\ \/ pc' = "done" /\ error' = error
       \/ Fail("Exception")
    /\ UNCHANGED <<entry, current_limits, runVars, listVars, verifyVars, authVars, sessionVars>>

----------------------------------------------------------------------------
(* main_ephemeral._main *)

\* step 2
FilterPackages ==
    /\ pc = "filter"
    /\ pkgs_matching_re' = PkgsMatchingRe(active_versions, config.match_regex)
    /\ all_pkgs_tags_to_version' = AllPkgsTagsToVersion(active_versions)
    /\ pc' = IF pkgs_matching_re' = <<>> THEN "done_nopkgs"
             ELSE IF config.scheme = "branch" THEN "branches" ELSE "pulls"
    /\ pr_index' = 1
    /\ UNCHANGED <<entry, current_limits, error, config, active_versions, branch_names,
                   pkgs_with_closed_pr, pr_fetched, pr_skipped, tags_to_delete,
                   tags_to_keep, delete_index, registry_requests, verify_started,
                   verify_tags, tag_to_pkgs, untagged_versions, sweep_todo,
                   sweep_skipped, declared_refs, protected_refs, initial_untagged,
                   listVars, last_delete,
                   verifyVars, authVars, sessionVars>>

\* the deletion list is not subtracted from the keep-set
SetDeletionKeepsAll(to_delete) ==
    /\ tags_to_delete' = to_delete
    /\ tags_to_keep' = DOMAIN all_pkgs_tags_to_version
    /\ pc' = IF Len(to_delete) = 0 THEN "done_noimages" ELSE "delete"
    /\ delete_index' = 1

\* lines 202-208: the keep-set, and the early return on an empty deletion list
SetDeletion(to_delete) ==
    /\ tags_to_delete' = to_delete
    /\ tags_to_keep' = DOMAIN all_pkgs_tags_to_version \ Range(to_delete)
    /\ pc' = IF Len(to_delete) = 0 THEN "done_noimages" ELSE "delete"
    /\ delete_index' = 1

BranchNameSets == {S \in SUBSET TagUniverse : Cardinality(S) <= MaxBranches}

\* step 3, scheme branch: list the branches, subtract them from the tags
BranchScheme ==
    /\ pc = "branches"
    /\ \/ \E names \in BranchNameSets :
            /\ branch_names' = names
            /\ \E order \in SeqOfSet(BranchTagsToDelete(pkgs_matching_re, names,
                                                        config.match_regex)) :
                  SetDeletion(order)
            /\ error' = error
       \/ /\ Fail("HTTPStatusError")
          /\ UNCHANGED <<branch_names, tags_to_delete, tags_to_keep, delete_index>>
    /\ UNCHANGED <<entry, current_limits, config, active_versions, pkgs_matching_re,
                   all_pkgs_tags_to_version, pr_index, pkgs_with_closed_pr,
                   pr_fetched, pr_skipped, registry_requests, verify_started,
                   verify_tags, tag_to_pkgs, untagged_versions, sweep_todo,
                   sweep_skipped, declared_refs, protected_refs, initial_untagged,
                   listVars, last_delete,
                   verifyVars, authVars, sessionVars>>

\* step 3, scheme pull_request: one iteration over matched_packages
PullRequestStep ==
    /\ pc = "pulls"
    /\ pr_index <= Len(pkgs_matching_re)
    /\ LET pkg == pkgs_matching_re[pr_index]
           d == PrDecision(pkg, config.match_regex)
       IN \/ /\ d.kind = "skip"
             /\ pr_index' = pr_index + 1
             /\ UNCHANGED <<pc, error, pkgs_with_closed_pr, pr_fetched, pr_skipped>>
          \/ /\ d.kind = "warn"
             /\ pr_skipped' = pr_skipped \cup {pkg.tags[1]}
             /\ pr_index' = pr_index + 1
             /\ UNCHANGED <<pc, error, pkgs_with_closed_pr, pr_fetched>>
          \/ /\ d.kind = "raise"
             /\ Fail("ValueError")
             /\ UNCHANGED <<pr_index, pkgs_with_closed_pr, pr_fetched, pr_skipped>>
          \/ /\ d.kind = "fetch"
             /\ \/ \E state \in PRStates :
                     /\ pr_fetched' = [t \in DOMAIN pr_fetched \cup {pkg.tags[1]} |->
                                         IF t = pkg.tags[1]
                                         THEN [number |-> d.number, state |-> state]
                                         ELSE pr_fetched[t]]
                     /\ pkgs_with_closed_pr' =
                          IF Closed(state) THEN Append(pkgs_with_closed_pr, pkg)
                          ELSE pkgs_with_closed_pr
                     /\ pr_index' = pr_index + 1
                     /\ UNCHANGED <<pc, error, pr_skipped>>
                \/ /\ Fail("HTTPStatusError")
                   /\ UNCHANGED <<pr_index, pkgs_with_closed_pr, pr_fetched, pr_skipped>>
    /\ UNCHANGED <<entry, current_limits, config, active_versions, pkgs_matching_re,
                   all_pkgs_tags_to_version, branch_names, tags_to_delete,
                   tags_to_keep, delete_index, registry_requests, verify_started,
                   verify_tags, tag_to_pkgs, untagged_versions, sweep_todo,
                   sweep_skipped, declared_refs, protected_refs, initial_untagged,
                   listVars, last_delete,
                   verifyVars, authVars, sessionVars>>

\* the deletion list is taken while pull requests are still to be fetched
PullRequestSchemeEarly ==
    /\ pc = "pulls"
    /\ SetDeletion([i \in DOMAIN pkgs_with_closed_pr |-> pkgs_with_closed_pr[i].tags[1]])
    /\ UNCHANGED <<entry, current_limits, error, config, active_versions, pkgs_matching_re,
                   all_pkgs_tags_to_version, branch_names, pr_index,
                   pkgs_with_closed_pr, pr_fetched, pr_skipped, registry_requests,
                   verify_started, verify_tags, tag_to_pkgs, untagged_versions,
                   sweep_todo, sweep_skipped, declared_refs, protected_refs, initial_untagged,
                   listVars, last_delete, verifyVars, authVars, sessionVars>>

\* line 75 and lines 202-208
PullRequestScheme ==
    /\ pc = "pulls"
    /\ pr_index > Len(pkgs_matching_re)
    /\ SetDeletion([i \in DOMAIN pkgs_with_closed_pr |-> pkgs_with_closed_pr[i].tags[1]])
    /\ UNCHANGED <<entry, current_limits, error, config, active_versions, pkgs_matching_re,
                   all_pkgs_tags_to_version, branch_names, pr_index,
                   pkgs_with_closed_pr, pr_fetched, pr_skipped, registry_requests,
                   verify_started, verify_tags, tag_to_pkgs, untagged_versions,
                   sweep_todo, sweep_skipped, declared_refs, protected_refs, initial_untagged,
                   listVars, last_delete, verifyVars, authVars, sessionVars>>

\* RateLimitError is swallowed and the loop goes on with the next member
SendDeleteGoesOn(version) ==
    \E resp \in DeleteResponses :
        /\ registry_requests' = Append(registry_requests,
               [method |-> "DELETE", id |-> version.id, name |-> version.name,
                tags |-> version.tags])
        /\ last_delete' = [status |-> resp.status, has_remaining |-> resp.has_remaining,
                           remaining |-> resp.remaining, outcome |-> DeleteOutcome(resp),
                           after_failure |-> last_delete.status \notin {0, 204}]
        /\ delete_index' = delete_index + 1
        /\ UNCHANGED <<pc, error>>

\* the request api.delete(version) sends, and what its response leads to
SendDelete(version) ==
    \E resp \in DeleteResponses :
        /\ registry_requests' = Append(registry_requests,
               [method |-> "DELETE", id |-> version.id, name |-> version.name,
                tags |-> version.tags])
        /\ last_delete' = [status |-> resp.status, has_remaining |-> resp.has_remaining,
                           remaining |-> resp.remaining, outcome |-> DeleteOutcome(resp),
                           after_failure |-> last_delete.status \notin {0, 204}]
        /\ IF DeleteOutcome(resp) = "RateLimitError"
           THEN Fail("RateLimitError") /\ UNCHANGED delete_index
           ELSE /\ delete_index' = delete_index + 1
                /\ UNCHANGED <<pc, error>>

\* step 4: one iteration of the deletion loop
DeleteStepEphemeral ==
    /\ pc = "delete"
    /\ entry = "ephemeral"
    /\ delete_index <= Len(tags_to_delete)
    /\ LET to_delete_name == tags_to_delete[delete_index]
       IN IF to_delete_name \notin DOMAIN all_pkgs_tags_to_version
          THEN Fail("KeyError") /\ UNCHANGED <<delete_index, registry_requests, last_delete>>
          ELSE IF config.delete
               THEN SendDelete(all_pkgs_tags_to_version[to_delete_name])
               ELSE /\ delete_index' = delete_index + 1
                    /\ UNCHANGED <<pc, error, registry_requests, last_delete>>
    /\ UNCHANGED <<entry, current_limits, config, active_versions, pkgs_matching_re,
                   all_pkgs_tags_to_version, branch_names, pr_index,
                   pkgs_with_closed_pr, pr_fetched, pr_skipped, tags_to_delete,
                   tags_to_keep, verify_started, verify_tags, tag_to_pkgs,
                   untagged_versions, sweep_todo, sweep_skipped, declared_refs,
                   protected_refs,
                   initial_untagged, listVars, verifyVars, authVars, sessionVars>>

DeleteLoopEndEphemeral ==
    /\ pc = "delete"
    /\ entry = "ephemeral"
    /\ delete_index > Len(tags_to_delete)
    /\ pc' = "afterdelete"
    /\ UNCHANGED <<entry, current_limits, error, runVars, listVars, verifyVars, authVars, sessionVars>>

----------------------------------------------------------------------------
(* regtools/images.py: manifests as the registry returns them *)

OCI_INDEX_MEDIA_TYPE == "application/vnd.oci.image.index.v1+json"
DOCKER_MANIFEST_LIST_MEDIA_TYPE == "application/vnd.docker.distribution.manifest.list.v2+json"
OCI_MANIFEST_MEDIA_TYPE == "application/vnd.oci.image.manifest.v1+json"
DOCKER_MANIFEST_MEDIA_TYPE == "application/vnd.docker.distribution.manifest.v2+json"

MANIFEST_MEDIA_TYPES ==
    {OCI_INDEX_MEDIA_TYPE, DOCKER_MANIFEST_LIST_MEDIA_TYPE,
     OCI_MANIFEST_MEDIA_TYPE, DOCKER_MANIFEST_MEDIA_TYPE}

MultiArchMediaTypes == {OCI_INDEX_MEDIA_TYPE, DOCKER_MANIFEST_LIST_MEDIA_TYPE}

\* is_multi_arch_media_type: reads the mediaType field of the JSON body,
\* "" when the body has none
IsMultiArchMediaType(manifest) == manifest.mediaType \in MultiArchMediaTypes

\* the body is never consulted
DeclaredMediaTypeHeaderOnly(resp) ==
    IF resp.content_type = <<>> THEN "" ELSE resp.content_type[1]

\* get_manifest, lines 208-210: the Content-Type header split at ";" (a
\* sequence of parts, empty when the header is absent), the body as fallback
DeclaredMediaType(resp) ==
    LET media_type == IF resp.content_type = <<>> THEN "" ELSE resp.content_type[1]
    IN IF media_type = "" THEN resp.body.mediaType ELSE media_type

\* get_parsed_type: the TypedDict the JSON is cast to; ValueError for an
\* unknown media type
GetParsedType(media_type) ==
    IF media_type = OCI_INDEX_MEDIA_TYPE THEN "OCIImageIndex"
    ELSE IF media_type = DOCKER_MANIFEST_LIST_MEDIA_TYPE THEN "DockerManifestList"
    ELSE IF media_type = OCI_MANIFEST_MEDIA_TYPE THEN "OCIManifest"
    ELSE IF media_type = DOCKER_MANIFEST_MEDIA_TYPE THEN "DockerManifestV2"
    ELSE "ValueError"

\* get_manifest, lines 207-212: the JSON body as the type get_parsed_type
\* casts it to, or its ValueError
GetManifest(resp) ==
    LET parsed == GetParsedType(DeclaredMediaType(resp))
    IN [ok |-> parsed # "ValueError", parsed |-> parsed, manifest |-> resp.body]


\* the digests numbered in S in ascending order; the number past those of
\* the versions is a digest no version has
RECURSIVE InDigestOrder(_)
InDigestOrder(S) ==
    IF S = {} THEN <<>>
    ELSE LET m == CHOOSE x \in S : \A y \in S : x <= y
         IN <<IF m <= MaxVersions + 1 THEN DigestName(m) ELSE "sha256:other">>
            \o InDigestOrder(S \ {m})

\* the digests an index lists: up to MaxDescriptors of them, each once; the
\* sweep handles them one by one and their order does not change its result
DescriptorLists ==
    {InDigestOrder(S) : S \in {T \in SUBSET (1..(MaxVersions + 2)) :
                                  Cardinality(T) <= MaxDescriptors}}

ContentTypes ==
    {<<>>, <<OCI_INDEX_MEDIA_TYPE, "charset=utf-8">>, <<DOCKER_MANIFEST_LIST_MEDIA_TYPE>>,
     <<OCI_MANIFEST_MEDIA_TYPE>>, <<"text/plain">>}

\* a 200 response to GET /v2/<repository>/manifests/<reference>: the body's
\* `manifests` are given by the digests of its descriptors. A registry serves
\* a manifest under the media type the manifest itself names, when it names
\* one (the mediaType field of an OCI index is optional, regtools/models.py).
ManifestResponses ==
    {resp \in [content_type : ContentTypes,
               body : [mediaType : {"", OCI_INDEX_MEDIA_TYPE,
                                    DOCKER_MANIFEST_LIST_MEDIA_TYPE,
                                    OCI_MANIFEST_MEDIA_TYPE},
                       manifests : DescriptorLists]] :
        \/ resp.body.mediaType = ""
        \/ resp.content_type = <<>>
        \/ resp.content_type[1] = resp.body.mediaType}

----------------------------------------------------------------------------
(* main_untagged._main *)

\* the test pkg.untagged is left out
UntaggedVersionsUnfiltered(versions) == versions

\* lines 82-86: the versions without a tag, by name
UntaggedVersions(versions) == SelectSeq(versions, Untagged)

TagToPkgs(versions) == TagsToVersion(versions)

Names(versions) == {versions[i].name : i \in DOMAIN versions}

\* line 123, del untagged_versions[digest]: KeyError for a key the dict lacks
DelDigest(untagged, digest) ==
    IF digest \in Names(untagged)
    THEN [ok |-> TRUE, versions |-> SelectSeq(untagged, LAMBDA pkg : pkg.name # digest)]
    ELSE [ok |-> FALSE, versions |-> untagged]

\* the test `digest in untagged_versions` is left out
RECURSIVE ProtectDigestsUnguarded(_, _)
ProtectDigestsUnguarded(untagged, digests) ==
    IF digests = <<>> THEN [ok |-> TRUE, versions |-> untagged]
    ELSE IF Head(digests) # ""
         THEN LET deleted == DelDigest(untagged, Head(digests))
              IN IF deleted.ok THEN ProtectDigestsUnguarded(deleted.versions, Tail(digests))
                 ELSE deleted
         ELSE ProtectDigestsUnguarded(untagged, Tail(digests))

\* lines 114-123: every descriptor digest found in the dict is deleted from
\* it; ok is false when a del raised KeyError
RECURSIVE ProtectDigests(_, _)
ProtectDigests(untagged, digests) ==
    IF digests = <<>> THEN [ok |-> TRUE, versions |-> untagged]
    ELSE IF Head(digests) # "" /\ Head(digests) \in Names(untagged)
         THEN LET deleted == DelDigest(untagged, Head(digests))
              IN IF deleted.ok THEN ProtectDigests(deleted.versions, Tail(digests))
                 ELSE deleted
         ELSE ProtectDigests(untagged, Tail(digests))

\* lines 113-125: the body of the sweep loop for a manifest that was fetched
SweepBody(untagged, manifest) ==
    IF IsMultiArchMediaType(manifest)
    THEN ProtectDigests(untagged, manifest.manifests)
    ELSE [ok |-> TRUE, versions |-> untagged]

\* step 1: api.active_versions(package_name)
GatherUntagged ==
    /\ pc = "gather"
    /\ entry = "untagged"
    /\ \/ \E versions \in VersionLists(SweepTags, MaxVersions + 1) :
            /\ active_versions' = versions
            /\ pc' = "partition"
            /\ error' = error
       \/ Fail("HTTPStatusError") /\ UNCHANGED active_versions
    /\ UNCHANGED <<entry, current_limits, config, pkgs_matching_re, all_pkgs_tags_to_version,
                   branch_names, pr_index, pkgs_with_closed_pr, pr_fetched, pr_skipped,
                   tags_to_delete, tags_to_keep, delete_index, registry_requests,
                   verify_started, verify_tags, tag_to_pkgs, untagged_versions,
                   sweep_todo, sweep_skipped, declared_refs, protected_refs, initial_untagged,
                   listVars, last_delete, verifyVars, authVars, sessionVars>>

\* lines 82-97
PartitionVersions ==
    /\ pc = "partition"
    /\ tag_to_pkgs' = TagToPkgs(active_versions)
    /\ untagged_versions' = UntaggedVersions(active_versions)
    /\ initial_untagged' = Names(untagged_versions')
    /\ tags_to_keep' = DOMAIN tag_to_pkgs'
    /\ sweep_todo' = tags_to_keep'
    /\ pc' = "sweep"
    /\ UNCHANGED <<entry, current_limits, error, config, active_versions, pkgs_matching_re,
                   all_pkgs_tags_to_version, branch_names, pr_index,
                   pkgs_with_closed_pr, pr_fetched, pr_skipped, tags_to_delete,
                   delete_index, registry_requests, verify_started, verify_tags,
                   sweep_skipped, declared_refs, protected_refs, listVars, last_delete,
                   verifyVars, authVars, sessionVars>>

\* step 2: one iteration of the loop over tags_to_keep (a list made from a
\* set: any order)
SweepStep ==
    /\ pc = "sweep"
    /\ \E tag \in sweep_todo :
        \/ \* HTTPStatusError: logged, the tag is skipped
           /\ sweep_skipped' = sweep_skipped \cup {tag}
           /\ sweep_todo' = sweep_todo \ {tag}
           /\ UNCHANGED <<pc, error, untagged_versions, declared_refs, protected_refs>>
        \/ \* any other httpx error is not caught
           /\ Fail("TransportError")
           /\ UNCHANGED <<sweep_todo, sweep_skipped, untagged_versions, declared_refs,
                          protected_refs>>
        \/ \E resp \in ManifestResponses :
             LET got == GetManifest(resp)
                 swept == SweepBody(untagged_versions, got.manifest)
             IN IF ~got.ok
                THEN /\ Fail("ValueError")
                     /\ UNCHANGED <<sweep_todo, sweep_skipped, untagged_versions,
                                    declared_refs, protected_refs>>
                ELSE IF ~swept.ok
                THEN /\ Fail("KeyError")
                     /\ UNCHANGED <<sweep_todo, sweep_skipped, untagged_versions,
                                    declared_refs, protected_refs>>
                ELSE /\ untagged_versions' = swept.versions
                     /\ declared_refs' =
                          IF DeclaredMediaType(resp) \in MultiArchMediaTypes
                          THEN declared_refs \cup Range(resp.body.manifests)
                          ELSE declared_refs
                     /\ protected_refs' =
                          IF IsMultiArchMediaType(got.manifest)
                          THEN protected_refs \cup Range(got.manifest.manifests)
                          ELSE protected_refs
                     /\ sweep_todo' = sweep_todo \ {tag}
                     /\ UNCHANGED <<pc, error, sweep_skipped>>
    /\ UNCHANGED <<entry, current_limits, config, active_versions, pkgs_matching_re,
                   all_pkgs_tags_to_version, branch_names, pr_index,
                   pkgs_with_closed_pr, pr_fetched, pr_skipped, tags_to_delete,
                   tags_to_keep, delete_index, registry_requests, verify_started,
                   verify_tags, tag_to_pkgs, initial_untagged, listVars, last_delete,
                   verifyVars, authVars, sessionVars>>

\* lines 127-133: the early return when nothing is left to delete
SweepEnd ==
    /\ pc = "sweep"
    /\ sweep_todo = {}
    /\ pc' = IF untagged_versions = <<>> THEN "done_nothing" ELSE "delete"
    /\ delete_index' = 1
    /\ UNCHANGED <<entry, current_limits, error, config, active_versions, pkgs_matching_re,
                   all_pkgs_tags_to_version, branch_names, pr_index,
                   pkgs_with_closed_pr, pr_fetched, pr_skipped, tags_to_delete,
                   tags_to_keep, registry_requests, verify_started, verify_tags,
                   tag_to_pkgs, untagged_versions, sweep_todo, sweep_skipped,
                   declared_refs, protected_refs, initial_untagged, listVars, last_delete,
                   verifyVars, authVars, sessionVars>>

\* step 3: one iteration of the deletion loop
DeleteStepUntagged ==
    /\ pc = "delete"
    /\ entry = "untagged"
    /\ delete_index <= Len(untagged_versions)
    /\ IF config.delete
       THEN SendDelete(untagged_versions[delete_index])
       ELSE /\ delete_index' = delete_index + 1
            /\ UNCHANGED <<pc, error, registry_requests, last_delete>>
    /\ UNCHANGED <<entry, current_limits, config, active_versions, pkgs_matching_re,
                   all_pkgs_tags_to_version, branch_names, pr_index,
                   pkgs_with_closed_pr, pr_fetched, pr_skipped, tags_to_delete,
                   tags_to_keep, verify_started, verify_tags, tag_to_pkgs,
                   untagged_versions, sweep_todo, sweep_skipped, declared_refs,
                   protected_refs,
                   initial_untagged, listVars, verifyVars, authVars, sessionVars>>

DeleteLoopEndUntagged ==
    /\ pc = "delete"
    /\ entry = "untagged"
    /\ delete_index > Len(untagged_versions)
    /\ pc' = "afterdelete"
    /\ UNCHANGED <<entry, current_limits, error, runVars, listVars, verifyVars, authVars, sessionVars>>

----------------------------------------------------------------------------
(* The two entry points *)

Next ==
    \/ CheckRateLimit
    \/ GatherEphemeral
    \/ FilterPackages
    \/ BranchScheme
    \/ PullRequestStep
    \/ PullRequestScheme
    \/ DeleteStepEphemeral
    \/ DeleteLoopEndEphemeral
    \/ GatherUntagged
    \/ PartitionVersions
    \/ SweepStep
    \/ SweepEnd
    \/ DeleteStepUntagged
    \/ DeleteLoopEndUntagged
    \/ AfterDelete
    \/ VerifyReturns

Spec == Init /\ [][Next]_vars

\* a run that deletes: --delete true, and for main_ephemeral one regex
InitDeleting ==
    /\ Init
    /\ config.delete_arg = "true"
    /\ entry = "ephemeral" => config.match_regex = PatDigits

\* the entry points run to their end: asyncio.run(_main()) drives every step
LiveSpec == InitDeleting /\ [][Next]_vars /\ WF_vars(Next)

----------------------------------------------------------------------------
(* GithubApiBase.list: the paginated listing *)

\* asyncio.Semaphore(10) of list()
PageConcurrency == 10

\* the items the API serves as page p of a listing of `last` pages
PageItems(p, last) ==
    IF p < last THEN <<10 * p + 1, 10 * p + 2>> ELSE <<10 * p + 1>>

\* a Link header is a sequence of links, each the page number of its URL's
\* page parameter (-1 when the URL has none) and its rel
NoPage == -1

LinkHeaders ==
    {<<>>, <<[page |-> 2, rel |-> "next"]>>}
    \cup {<<[page |-> 2, rel |-> "next"], [page |-> n, rel |-> "last"]>> : n \in 1..MaxLastPage}
    \cup {<<[page |-> NoPage, rel |-> "last"]>>}

\* _parse_link_header: rel -> URL, a later link of the same rel overwrites
ParseLinkHeader(header) ==
    [r \in {header[i].rel : i \in DOMAIN header} |->
        header[CHOOSE i \in DOMAIN header :
                  /\ header[i].rel = r
                  /\ \A j \in DOMAIN header : header[j].rel = r => j <= i].page]

\* the page of the `next` relation when there is no usable `last`
ExtractLastPageOrNext(links) ==
    IF "last" \in DOMAIN links /\ links["last"] # NoPage THEN links["last"]
    ELSE IF "next" \in DOMAIN links /\ links["next"] # NoPage THEN links["next"]
    ELSE 0

\* _extract_page_number(links.get("last", "")): 0 stands for None
ExtractLastPage(links) ==
    IF "last" \in DOMAIN links /\ links["last"] # NoPage THEN links["last"] ELSE 0

\* range(2, last_page) instead of range(2, last_page + 1)
TaskPagesShort(last_page) == 2..(last_page - 1)

\* lines 197-200: one task per remaining page
TaskPages(last_page) == 2..last_page

InFlight == {p \in DOMAIN l_page_state : l_page_state[p] = "inflight"}

\* the tasks inside `async with semaphore`: waiting for their response, or
\* asleep in _check_rate_limit
Holders == {p \in DOMAIN l_page_state : l_page_state[p] \in {"inflight", "sleeping"}}

\* the semaphore admits one more holder
SemaphoreFreeOffByOne(holders) == holders <= PageConcurrency

\* asyncio.Semaphore.acquire does not block while the value is positive
SemaphoreFree(holders) == holders < PageConcurrency

\* lines 211-218: results into the dict, pages concatenated by sorted key
RECURSIVE CombinePages(_, _)
CombinePages(all_data, keys) ==
    IF keys = {} THEN <<>>
    ELSE LET k == CHOOSE x \in keys : \A y \in keys : x <= y
         IN all_data[k] \o CombinePages(all_data, keys \ {k})

AllData(first_page, results) ==
    [k \in {1} \cup {results[p][1] : p \in DOMAIN results} |->
        IF \E p \in DOMAIN results : results[p][1] = k
        THEN results[CHOOSE p \in DOMAIN results : results[p][1] = k][2]
        ELSE first_page]

\* rate_limit_threshold of __init__
RateLimitThreshold == 100

\* the API answers one request: X-RateLimit-Remaining counts down to 0, and
\* a request made with nothing left is refused with 403 and a remaining of 0
Answer(srv) ==
    [limited |-> srv.remaining = 0,
     has_remaining |-> srv.sends_remaining,
     remaining |-> IF srv.remaining = 0 THEN 0 ELSE srv.remaining - 1,
     reset |-> srv.reset]

Served(srv) ==
    [srv EXCEPT !.remaining = IF srv.remaining = 0 THEN 0 ELSE srv.remaining - 1]

\* the sleep without the 5 second buffer
SleepDurationNoBuffer(hdr, t) ==
    IF ~hdr.has_remaining THEN 0
    ELSE IF hdr.remaining < RateLimitThreshold /\ hdr.reset # 0
         THEN (IF hdr.reset - t > 0 THEN hdr.reset - t ELSE 0)
         ELSE 0

\* _check_rate_limit: the seconds it sleeps on a response read at time t
\* (reset 0 stands for a response without X-RateLimit-Reset)
SleepDuration(hdr, t) ==
    IF ~hdr.has_remaining THEN 0
    ELSE IF hdr.remaining < RateLimitThreshold /\ hdr.reset # 0
         THEN (IF hdr.reset - t + 5 > 0 THEN hdr.reset - t + 5 ELSE 0)
         ELSE 0

\* httpx.Response.is_success, the test of raise_for_status()
IsSuccess(status) == status \in 200..299

\* gha_utils.error and logger.error in front of raise_for_status()
LogError(status) == l_logged' = l_logged \cup {status}

\* raise_for_status() raises on the response of request k
RaiseForStatus(hdr, status) ==
    /\ Fail("HTTPStatusError")
    /\ l_error_resp' = [status |-> status,
                        has_remaining |-> hdr.has_remaining,
                        remaining |-> hdr.remaining]

\* the request of get(), delete() or the first request of list() is sent and
\* answered, and _check_rate_limit reads the answer
SendAndCheck ==
    /\ c_sent' = c_sent \cup {c_headers}
    /\ server' = Served(server)
    /\ l_hdr' = (1 :> Answer(server))
    /\ l_wake' = IF SleepDuration(Answer(server), now) > 0
                 THEN (1 :> now + SleepDuration(Answer(server), now))
                 ELSE EmptyMap

\* await asyncio.sleep(sleep_duration)
FallAsleep ==
    /\ pc' = "asleep"
    /\ UNCHANGED <<error, l_error_resp, l_logged, l_link, l_last_page, l_page_state, l_returned>>

\* list() after the rate-limit check of the first response, lines 172-200:
\* a status other than 200 is logged and raise_for_status() is called, which
\* returns when the status is a success
ListFirstContinue(hdr) ==
    IF hdr.limited
    THEN /\ LogError(403)
         /\ RaiseForStatus(hdr, 403)
         /\ UNCHANGED <<l_last_page, l_page_state, l_returned, l_link>>
    ELSE \E status \in server.statuses :
            /\ IF status # 200 THEN LogError(status) ELSE UNCHANGED l_logged
            /\ IF IsSuccess(status)
               THEN /\ UNCHANGED <<error, l_error_resp>>
                    /\ \E header \in LinkHeaders :
                          LET last_page == ExtractLastPage(ParseLinkHeader(header))
                              pages == IF last_page = 0 THEN 1 ELSE last_page
                          IN /\ l_link' = header
                             /\ IF header = <<>> \/ last_page = 0 \/ last_page = 1
                                THEN /\ l_returned' = PageItems(1, pages)
                                     /\ l_last_page' = pages
                                     /\ pc' = "returned"
                                     /\ UNCHANGED l_page_state
                                ELSE /\ l_last_page' = last_page
                                     /\ l_page_state' =
                                           [p \in TaskPages(last_page) |-> "created"]
                                     /\ pc' = "gather"
                                     /\ UNCHANGED l_returned
               ELSE /\ RaiseForStatus(hdr, status)
                    /\ UNCHANGED <<l_last_page, l_page_state, l_returned, l_link>>

\* get() after the rate-limit check, lines 139-145
GetContinue(hdr) ==
    /\ IF hdr.limited
       THEN LogError(403) /\ RaiseForStatus(hdr, 403)
       ELSE \E status \in server.statuses :
               /\ IF status # 200 THEN LogError(status) ELSE UNCHANGED l_logged
               /\ IF IsSuccess(status)
                  THEN pc' = "returned" /\ UNCHANGED <<error, l_error_resp>>
                  ELSE RaiseForStatus(hdr, status)
    /\ UNCHANGED <<l_last_page, l_page_state, l_returned, l_link>>

\* delete() after the rate-limit check, lines 154-158
DeleteContinue(hdr) ==
    /\ IF hdr.limited
       THEN LogError(403) /\ RaiseForStatus(hdr, 403)
       ELSE \E status \in server.statuses :
               /\ IF status \notin {204, 200} THEN LogError(status) ELSE UNCHANGED l_logged
               /\ IF IsSuccess(status)
                  THEN pc' = "returned" /\ UNCHANGED <<error, l_error_resp>>
                  ELSE RaiseForStatus(hdr, status)
    /\ UNCHANGED <<l_last_page, l_page_state, l_returned, l_link>>

\* the first request of list(), lines 169-200
ListFirst ==
    /\ pc = "first"
    /\ SendAndCheck
    /\ IF SleepDuration(Answer(server), now) > 0
       THEN FallAsleep
       ELSE ListFirstContinue(Answer(server))
    /\ UNCHANGED <<entry, current_limits, runVars, now, l_results, l_out_of_order, l_issued_during_sleep,
                   verifyVars, authVars, c_headers, c_closed>>

\* GithubApiBase.get
Get ==
    /\ pc = "get"
    /\ SendAndCheck
    /\ IF SleepDuration(Answer(server), now) > 0
       THEN FallAsleep
       ELSE GetContinue(Answer(server))
    /\ UNCHANGED <<entry, current_limits, runVars, now, l_results, l_out_of_order, l_issued_during_sleep,
                   verifyVars, authVars, c_headers, c_closed>>

\* GithubApiBase.delete
Delete ==
    /\ pc = "delete_resource"
    /\ SendAndCheck
    /\ IF SleepDuration(Answer(server), now) > 0
       THEN FallAsleep
       ELSE DeleteContinue(Answer(server))
    /\ UNCHANGED <<entry, current_limits, runVars, now, l_results, l_out_of_order, l_issued_during_sleep,
                   verifyVars, authVars, c_headers, c_closed>>

\* asyncio.sleep(sleep_duration) of the single request returns
SleepEnds ==
    /\ pc = "asleep"
    /\ now >= l_wake[1]
    /\ UNCHANGED <<l_hdr, l_wake>>
    /\ CASE entry = "list" -> ListFirstContinue(l_hdr[1])
         [] entry = "get" -> GetContinue(l_hdr[1])
         [] OTHER -> DeleteContinue(l_hdr[1])
    /\ UNCHANGED <<entry, current_limits, runVars, now, server, l_results, l_out_of_order,
                   l_issued_during_sleep, verifyVars, authVars, sessionVars>>

\* a page task sleeps in _check_rate_limit and its sleep is not over
Sleeping == {p \in DOMAIN l_page_state : l_page_state[p] = "sleeping" /\ now < l_wake[p]}

\* fetch_with_semaphore: the tasks acquire the semaphore in creation order
\* (asyncio wakes waiters first-in first-out), then send their request
ListStartPage ==
    /\ pc = "gather"
    /\ \E p \in DOMAIN l_page_state :
          /\ l_page_state[p] = "created"
          /\ \A q \in DOMAIN l_page_state : l_page_state[q] = "created" => p <= q
          /\ SemaphoreFree(Cardinality(Holders))
          /\ l_page_state' = [l_page_state EXCEPT ![p] = "inflight"]
          /\ l_hdr' = (p :> Answer(server)) @@ l_hdr
          /\ server' = Served(server)
          /\ c_sent' = c_sent \cup {c_headers}
          /\ l_issued_during_sleep' = (l_issued_during_sleep \/ Sleeping # {})
    /\ UNCHANGED <<pc, entry, current_limits, error, runVars, now, l_wake, l_error_resp, l_logged,
                   l_link, l_last_page,
                   l_results, l_returned, l_out_of_order, verifyVars, authVars, c_headers, c_closed>>

\* _fetch_page after the rate-limit check, lines 227-232: a status other
\* than 200 is logged and raise_for_status() is called; the task returns its
\* page and leaves the semaphore, or raises
PageContinue(p) ==
    IF l_hdr[p].limited
    THEN /\ LogError(403)
         /\ RaiseForStatus(l_hdr[p], 403)
         /\ UNCHANGED <<l_results, l_page_state, l_out_of_order>>
    ELSE \E status \in server.statuses :
            /\ IF status # 200 THEN LogError(status) ELSE UNCHANGED l_logged
            /\ IF IsSuccess(status)
               THEN /\ l_results' = [q \in DOMAIN l_results \cup {p} |->
                                       IF q = p THEN <<p, PageItems(p, l_last_page)>>
                                       ELSE l_results[q]]
                    /\ l_page_state' = [l_page_state EXCEPT ![p] = "done"]
                    /\ l_out_of_order' = (l_out_of_order \/ \E q \in Holders : q < p)
                    /\ UNCHANGED <<pc, error, l_error_resp>>
               ELSE /\ RaiseForStatus(l_hdr[p], status)
                    /\ UNCHANGED <<l_results, l_page_state, l_out_of_order>>

\* _fetch_page: the response of one page arrives and _check_rate_limit reads it
ListPageResponds ==
    /\ pc = "gather"
    /\ \E p \in InFlight :
          LET d == SleepDuration(l_hdr[p], now)
          IN IF d > 0
                THEN /\ l_page_state' = [l_page_state EXCEPT ![p] = "sleeping"]
                     /\ l_wake' = (p :> now + d) @@ l_wake
                     /\ UNCHANGED <<pc, error, l_error_resp, l_logged, l_results, l_out_of_order>>
                ELSE PageContinue(p) /\ UNCHANGED l_wake
    /\ UNCHANGED <<entry, current_limits, runVars, now, server, l_hdr, l_last_page, l_returned,
                   l_link, l_issued_during_sleep, verifyVars, authVars, sessionVars>>

\* asyncio.sleep(sleep_duration) of a page task returns
ListPageWakes ==
    /\ pc = "gather"
    /\ \E p \in DOMAIN l_page_state :
          /\ l_page_state[p] = "sleeping"
          /\ now >= l_wake[p]
          /\ PageContinue(p)
    /\ UNCHANGED <<entry, current_limits, runVars, now, server, l_hdr, l_wake, l_last_page, l_returned,
                   l_link, l_issued_during_sleep, verifyVars, authVars, sessionVars>>

\* the times at which the running sleeps end
WakeTimes ==
    {l_wake[p] : p \in Sleeping}
    \cup (IF pc = "asleep" /\ now < l_wake[1] THEN {l_wake[1]} ELSE {})

\* the clock reaches the end of the earliest running sleep
TimePasses ==
    /\ WakeTimes # {}
    /\ now' = CHOOSE t \in WakeTimes : \A u \in WakeTimes : t <= u
    /\ UNCHANGED <<pc, entry, current_limits, error, runVars, server, l_hdr, l_wake, l_error_resp,
                   l_logged, l_link,                   l_last_page, l_page_state, l_results, l_returned, l_out_of_order,
                   l_issued_during_sleep, verifyVars, authVars, sessionVars>>

\* gather() returned: lines 211-220
ListCombine ==
    /\ pc = "gather"
    /\ \A p \in DOMAIN l_page_state : l_page_state[p] = "done"
    /\ LET all_data == AllData(PageItems(1, l_last_page), l_results)
       IN l_returned' = CombinePages(all_data, DOMAIN all_data)
    /\ pc' = "returned"
    /\ UNCHANGED <<entry, current_limits, error, runVars, now, server, l_hdr, l_wake, l_error_resp,
                   l_logged, l_link,                   l_last_page, l_page_state, l_results, l_out_of_order,
                   l_issued_during_sleep, verifyVars, authVars, sessionVars>>

\* the Accept header stays, the Authorization header with it
HeadersAfterExitKeepsToken(headers) == headers \ {"Accept"}

\* __aexit__, lines 73-76: Accept and Authorization are deleted when present
HeadersAfterExit(headers) == headers \ {"Accept", "Authorization"}

\* `async with GithubApiBase(...) as api` around one operation: __aexit__
\* runs when the operation has returned and when it has raised, deletes the
\* two headers and closes the client; an exception propagates
SessionExit ==
    /\ entry \in {"list", "get", "delete"}
    /\ pc \in {"returned", "failed"}
    /\ pc' = "exited"
    /\ c_headers' = HeadersAfterExit(c_headers)
    /\ c_closed' = TRUE
    /\ UNCHANGED <<entry, current_limits, error, runVars, listVars, verifyVars, authVars, c_sent>>

\* gather() has raised and the tasks it leaves behind go on: the task that
\* raised released the semaphore, so the longest-waiting task enters
\* fetch_with_semaphore and calls self._client.get, which raises
\* RuntimeError on a closed client before any request is sent
LatePageTask ==
    /\ pc = "exited"
    /\ error # ""
    /\ \E p \in DOMAIN l_page_state :
          /\ l_page_state[p] = "created"
          /\ \A q \in DOMAIN l_page_state : l_page_state[q] = "created" => p <= q
          /\ IF c_closed
             THEN /\ l_page_state' = [l_page_state EXCEPT ![p] = "refused"]
                  /\ UNCHANGED c_sent
             ELSE /\ l_page_state' = [l_page_state EXCEPT ![p] = "inflight"]
                  /\ c_sent' = c_sent \cup {c_headers}
    /\ UNCHANGED <<pc, entry, current_limits, error, runVars, now, server, l_hdr, l_wake, l_error_resp,
                   l_logged, l_link,                   l_last_page, l_results, l_returned, l_out_of_order,
                   l_issued_during_sleep, verifyVars, authVars, c_headers, c_closed>>

\* what the API has left when the operation starts, whether it sends
\* X-RateLimit-Remaining, the X-RateLimit-Reset it sends (0: none), and the
\* statuses it answers a request within the quota with
Servers ==
    {[remaining |-> 5000, sends_remaining |-> TRUE, reset |-> 103, statuses |-> {200, 202, 404}],
     [remaining |-> 5000, sends_remaining |-> FALSE, reset |-> 103, statuses |-> {200, 404}],
     [remaining |-> 110, sends_remaining |-> TRUE, reset |-> 103, statuses |-> {200, 404}],
     [remaining |-> 100, sends_remaining |-> TRUE, reset |-> 103, statuses |-> {200, 404}],
     [remaining |-> 100, sends_remaining |-> TRUE, reset |-> 90, statuses |-> {200, 404}],
     [remaining |-> 100, sends_remaining |-> TRUE, reset |-> 0, statuses |-> {200, 404}],
     [remaining |-> 2, sends_remaining |-> TRUE, reset |-> 95, statuses |-> {200, 404}],
     [remaining |-> 0, sends_remaining |-> TRUE, reset |-> 103, statuses |-> {200, 404}]}

InitListing ==
    /\ entry \in {"list", "get", "delete"}
    /\ pc = CASE entry = "list" -> "first"
              [] entry = "get" -> "get"
              [] OTHER -> "delete_resource"
    /\ config = UntaggedConfig("false")
    /\ InitRun
    /\ InitList
    /\ now = 100
    /\ server \in Servers
    /\ IdleVerifier
    /\ IdleAuth

NextList ==
    \/ ListFirst
    \/ Get
    \/ Delete
    \/ SleepEnds
    \/ ListStartPage
    \/ ListPageResponds
    \/ ListPageWakes
    \/ TimePasses
    \/ ListCombine

SpecList == InitListing /\ [][NextList]_vars

\* one operation inside `async with`, against an API so far from its rate
\* limit that no request of the operation brings it to the threshold and no
\* task sleeps
InitSession ==
    /\ InitListing
    /\ server.remaining - MaxLastPage > RateLimitThreshold

NextSession ==
    \/ ListFirst
    \/ Get
    \/ Delete
    \/ ListStartPage
    \/ ListPageResponds
    \/ ListCombine
    \/ SessionExit
    \/ LatePageTask

SpecSession == InitSession /\ [][NextSession]_vars

----------------------------------------------------------------------------
(* regtools/images.py: check_tags_still_valid *)

\* the descriptor of a platform manifest
Descriptor(i) == [digest |-> DigestName(i), mediaType |-> OCI_MANIFEST_MEDIA_TYPE]

\* the descriptor lists of an index: platform manifests, one list with a
\* descriptor without a digest and one with a descriptor of a media type
\* that is not a manifest type
IndexDescriptorLists ==
    {<<>>,
     <<Descriptor(1)>>,
     <<Descriptor(1), Descriptor(2)>>,
     <<Descriptor(1), Descriptor(2), Descriptor(3)>>,
     <<[digest |-> "", mediaType |-> OCI_MANIFEST_MEDIA_TYPE], Descriptor(2)>>,
     <<Descriptor(1),
       [digest |-> DigestName(2),
        mediaType |-> "application/vnd.oci.artifact.manifest.v1+json"]>>}

\* 200 responses to the manifest request of a tag: a single-platform
\* manifest, indices, an index whose body carries no mediaType, bodies
\* served under a media type get_parsed_type does not know, a header with a
\* parameter, and responses without a Content-Type header
TagManifestResponses ==
    {[content_type |-> <<OCI_MANIFEST_MEDIA_TYPE>>,
      body |-> [mediaType |-> OCI_MANIFEST_MEDIA_TYPE, manifests |-> <<>>]],
     [content_type |-> <<OCI_INDEX_MEDIA_TYPE>>,
      body |-> [mediaType |-> "", manifests |-> <<Descriptor(1)>>]],
     [content_type |-> <<"text/plain">>,
      body |-> [mediaType |-> "", manifests |-> <<>>]],
     [content_type |-> <<"application/json">>,
      body |-> [mediaType |-> DOCKER_MANIFEST_MEDIA_TYPE, manifests |-> <<>>]],
     [content_type |-> <<DOCKER_MANIFEST_LIST_MEDIA_TYPE, "charset=utf-8">>,
      body |-> [mediaType |-> DOCKER_MANIFEST_LIST_MEDIA_TYPE, manifests |-> <<>>]],
     [content_type |-> <<>>,
      body |-> [mediaType |-> DOCKER_MANIFEST_MEDIA_TYPE, manifests |-> <<>>]],
     [content_type |-> <<>>,
      body |-> [mediaType |-> "", manifests |-> <<>>]]}
    \cup {[content_type |-> <<OCI_INDEX_MEDIA_TYPE>>,
           body |-> [mediaType |-> OCI_INDEX_MEDIA_TYPE, manifests |-> ds]] :
             ds \in IndexDescriptorLists}

NoResponse == [content_type |-> <<>>, body |-> [mediaType |-> "", manifests |-> <<>>]]

\* _check_single_tag, lines 247-261: one digest task per descriptor that has
\* a digest and a manifest media type, when the body says multi-arch
DigestTasks(manifest) ==
    IF IsMultiArchMediaType(manifest)
    THEN LET kept == SelectSeq(manifest.manifests,
                         LAMBDA d : ~(d.digest = "" \/ d.mediaType \notin MANIFEST_MEDIA_TYPES))
         IN [k \in DOMAIN kept |-> [digest |-> kept[k].digest, state |-> "waiting"]]
    ELSE <<>>

\* a digest result that is False passes
TagResultExceptionsOnly(tasks) ==
    IF \E k \in DOMAIN tasks : tasks[k].state = "exception" THEN "False" ELSE "True"

\* lines 264-277: the value _check_single_tag returns after gather()
TagResult(tasks) ==
    IF \E k \in DOMAIN tasks : tasks[k].state # "True" THEN "False" ELSE "True"

\* the semaphore admits a holder beyond its limit
CanAcquireOffByOne(holders, limit) == holders <= limit

\* the semaphore keeps one of its slots back
CanAcquireOneLess(holders, limit) == holders + 1 < limit

\* asyncio.BoundedSemaphore(limit).acquire does not block
CanAcquire(holders, limit) == holders < limit

TagsFetching == {t \in DOMAIN v_tag_state : v_tag_state[t] = "fetching"}

DigestsFetching ==
    {<<t, k>> \in UNION {{t} \X DOMAIN v_digest[t] : t \in DOMAIN v_digest} :
        v_digest[t][k].state = "fetching"}

\* the verdict is taken as soon as one tag has failed
VerdictReadyOnFailure(results) ==
    \/ \A t \in DOMAIN results : results[t] # "none"
    \/ \E t \in DOMAIN results : results[t] = "False"

\* gather(*tag_tasks, return_exceptions=True) returns when every task is done
VerdictReady(results) == \A t \in DOMAIN results : results[t] # "none"

\* _check_single_tag enters `async with tag_semaphore` and sends its request;
\* the tasks reach the semaphore in list order
TagAcquires ==
    /\ pc = "check_tags"
    /\ \E i \in DOMAIN v_tags :
          /\ v_tag_state[v_tags[i]] = "created"
          /\ \A j \in 1..(i - 1) : v_tag_state[v_tags[j]] # "created"
          /\ CanAcquire(Cardinality(TagsFetching), v_tag_concurrency)
          /\ v_tag_state' = [v_tag_state EXCEPT ![v_tags[i]] = "fetching"]
    /\ UNCHANGED <<pc, entry, current_limits, error, runVars, listVars, v_tags, v_tag_concurrency,
                   v_digest_concurrency, v_fetch, v_digest, v_result, authVars, sessionVars>>

\* get_manifest of a tag returns or raises; the tag semaphore is released and
\* the digest tasks are created
TagManifestArrives ==
    /\ pc = "check_tags"
    /\ \E t \in TagsFetching :
          \/ \E exc \in {"HTTPStatusError", "TransportError"} :
                /\ v_fetch' = [v_fetch EXCEPT ![t] = [outcome |-> exc, parsed |-> "", resp |-> NoResponse]]
                /\ v_result' = [v_result EXCEPT ![t] = "False"]
                /\ v_tag_state' = [v_tag_state EXCEPT ![t] = "done"]
                /\ UNCHANGED v_digest
          \/ \E resp \in TagManifestResponses :
                LET got == GetManifest(resp)
                    tasks == DigestTasks(got.manifest)
                IN IF ~got.ok
                   THEN /\ v_fetch' = [v_fetch EXCEPT ![t] =
                                          [outcome |-> "ValueError", parsed |-> "",
                                           resp |-> resp]]
                        /\ v_result' = [v_result EXCEPT ![t] = "False"]
                        /\ v_tag_state' = [v_tag_state EXCEPT ![t] = "done"]
                        /\ UNCHANGED v_digest
                   ELSE /\ v_fetch' = [v_fetch EXCEPT ![t] = [outcome |-> "ok",
                                                                 parsed |-> got.parsed,
                                                                 resp |-> resp]]
                        /\ v_digest' = [v_digest EXCEPT ![t] = tasks]
                        /\ IF tasks = <<>>
                           THEN /\ v_result' = [v_result EXCEPT ![t] = "True"]
                                /\ v_tag_state' = [v_tag_state EXCEPT ![t] = "done"]
                           ELSE /\ v_tag_state' = [v_tag_state EXCEPT ![t] = "gathering"]
                                /\ UNCHANGED v_result
    /\ UNCHANGED <<pc, entry, current_limits, error, runVars, listVars, v_tags, v_tag_concurrency,
                   v_digest_concurrency, authVars, sessionVars>>

\* _check_digest_is_valid enters `async with semaphore` and sends its
\* request; the tasks of one tag reach the semaphore in descriptor order
DigestAcquires ==
    /\ pc = "check_tags"
    /\ \E t \in DOMAIN v_digest : \E k \in DOMAIN v_digest[t] :
          /\ v_digest[t][k].state = "waiting"
          /\ \A j \in 1..(k - 1) : v_digest[t][j].state # "waiting"
          /\ CanAcquire(Cardinality(DigestsFetching), v_digest_concurrency)
          /\ v_digest' = [v_digest EXCEPT ![t][k].state = "fetching"]
    /\ UNCHANGED <<pc, entry, current_limits, error, runVars, listVars, v_tags, v_tag_concurrency,
                   v_digest_concurrency, v_tag_state, v_fetch, v_result, authVars, sessionVars>>

\* get_manifest of a digest returns (True), raises an httpx.HTTPError (False)
\* or raises the ValueError of get_parsed_type, which gather() hands back
DigestManifestArrives ==
    /\ pc = "check_tags"
    /\ \E <<t, k>> \in DigestsFetching : \E r \in {"True", "False", "exception"} :
          v_digest' = [v_digest EXCEPT ![t][k].state = r]
    /\ UNCHANGED <<pc, entry, current_limits, error, runVars, listVars, v_tags, v_tag_concurrency,
                   v_digest_concurrency, v_tag_state, v_fetch, v_result, authVars, sessionVars>>

\* gather(*digest_tasks, return_exceptions=True) of one tag returns
TagGathers ==
    /\ pc = "check_tags"
    /\ \E t \in DOMAIN v_tag_state :
          /\ v_tag_state[t] = "gathering"
          /\ \A k \in DOMAIN v_digest[t] :
                v_digest[t][k].state \in {"True", "False", "exception"}
          /\ v_result' = [v_result EXCEPT ![t] = TagResult(v_digest[t])]
          /\ v_tag_state' = [v_tag_state EXCEPT ![t] = "done"]
    /\ UNCHANGED <<pc, entry, current_limits, error, runVars, listVars, v_tags, v_tag_concurrency,
                   v_digest_concurrency, v_fetch, v_digest, authVars, sessionVars>>

\* lines 334-345: any_tag_failed, and the exception it leads to
VerifierVerdict ==
    /\ pc = "check_tags"
    /\ VerdictReady(v_result)
    /\ IF \A t \in DOMAIN v_result : v_result[t] = "True"
       THEN pc' = "verified" /\ error' = error
       ELSE Fail("Exception")
    /\ UNCHANGED <<entry, current_limits, runVars, listVars, verifyVars, authVars, sessionVars>>

InitVerifier ==
    /\ pc = "check_tags"
    /\ entry = "verify"
    /\ config = UntaggedConfig("true")
    /\ InitRun
    /\ InitList
    /\ IdleClient
    /\ IdleAuth
    /\ v_tags \in {<<>>, <<TagP1>>, <<TagP1, TagM>>}
    /\ v_tag_concurrency \in {1, 10}
    /\ v_digest_concurrency \in {2, 5}
    /\ v_tag_state = [t \in Range(v_tags) |-> "created"]
    /\ v_fetch = [t \in Range(v_tags) |-> [outcome |-> "none", parsed |-> "",
                                          resp |-> NoResponse]]
    /\ v_digest = [t \in Range(v_tags) |-> <<>>]
    /\ v_result = [t \in Range(v_tags) |-> "none"]

NextVerifier ==
    \/ TagAcquires
    \/ TagManifestArrives
    \/ DigestAcquires
    \/ DigestManifestArrives
    \/ TagGathers
    \/ VerifierVerdict

SpecVerifier == InitVerifier /\ [][NextVerifier]_vars

\* the event loop runs every task that is ready, and every fetch returns
LiveSpecVerifier == InitVerifier /\ [][NextVerifier]_vars /\ WF_vars(NextVerifier)

----------------------------------------------------------------------------
(* regtools/images.py: BearerAuth.async_auth_flow *)

\* the default of expires_in and the buffer subtracted from it
DefaultExpiresIn == 300
ExpiryBuffer == 30

\* URL paths as sequences of segments
RequestPaths ==
    {<<"v2", "o", "a", "manifests", "latest">>,
     <<"v2", "o", "b", "blobs", "sha256:1">>,
     <<"v2", "manifests">>}

NoScope == <<>>

\* the scope names the owner only
ScopeOfOwner(path) == IF Len(path) < 4 THEN NoScope ELSE <<path[2]>>

\* re.search(r"/v2/(.+?)/(manifests|blobs)/", path): the shortest repository
\* name followed by /manifests/ or /blobs/; NoScope when the path has none
ScopeOf(path) ==
    LET ends == {j \in 3..(Len(path) - 1) : path[j] \in {"manifests", "blobs"}}
    IN IF Len(path) < 4 \/ path[1] # "v2" \/ ends = {}
       THEN NoScope
       ELSE SubSeq(path, 2, (CHOOSE j \in ends : \A i \in ends : j <= i) - 1)

NoToken == [token |-> 0, expires_at |-> 0]

\* a token is still taken as usable at the instant it expires
ExpiredLate(cached, t) == t > cached.expires_at

\* line 113, negated: the entry is usable only while time.time() < expires_at
Expired(cached, t) == t >= cached.expires_at

\* the token is taken as expired one buffer early
TokenValidEarly(cached, t) == cached # NoToken /\ t + ExpiryBuffer < cached.expires_at

\* line 113: `cached and time.time() < cached.expires_at`
TokenValid(cached, t) == cached # NoToken /\ ~Expired(cached, t)

\* the cache is read without regard to the scope
CachedForAnyScope(tokens, scope) ==
    IF DOMAIN tokens = {} THEN NoToken
    ELSE tokens[CHOOSE s \in DOMAIN tokens : \A u \in DOMAIN tokens : Len(s) <= Len(u)]

\* self._tokens.get(scope)
CachedFor(tokens, scope) == IF scope \in DOMAIN tokens THEN tokens[scope] ELSE NoToken

\* responses of the registry to the unauthenticated request: a status and
\* what the Www-Authenticate header carries
UnauthenticatedResponses ==
    {[status |-> 200, challenge |-> "none"],
     [status |-> 403, challenge |-> "realm_service"],
     [status |-> 401, challenge |-> "none"],
     [status |-> 401, challenge |-> "realm_service"],
     [status |-> 401, challenge |-> "service_only"],
     [status |-> 401, challenge |-> "realm_only"]}

\* responses of the realm: an error status, and a JSON body with or without
\* a token and with or without expires_in (0: absent)
TokenResponses ==
    {[status |-> 500, has_token |-> FALSE, expires_in |-> 0],
     [status |-> 200, has_token |-> FALSE, expires_in |-> 0],
     [status |-> 200, has_token |-> TRUE, expires_in |-> 0],
     [status |-> 200, has_token |-> TRUE, expires_in |-> 60]}

\* a challenge with a realm is taken as complete
ChallengeParsesRealmOnly(challenge) == challenge \in {"realm_service", "realm_only"}

\* lines 126-130: both re.search calls find their group
ChallengeParses(challenge) == challenge = "realm_service"

\* an absent expires_in is read as no lifetime at all
ExpiresInNoDefault(token_resp) == token_resp.expires_in

\* token_data.get("expires_in", 300)
ExpiresIn(token_resp) ==
    IF token_resp.expires_in = 0 THEN DefaultExpiresIn ELSE token_resp.expires_in

Sends(r, kind, scope, token) ==
    a_sent' = [a_sent EXCEPT ![r] = Append(@, [kind |-> kind, scope |-> scope, token |-> token])]

FlowEnds(r, state, exc, status) ==
    a_flow' = [a_flow EXCEPT ![r].pc = state, ![r].error = exc, ![r].status = status]

\* lines 105-119: the scope, the cache lookup and the first request
AuthStart ==
    /\ pc = "auth"
    /\ \E r \in DOMAIN a_flow : \E path \in RequestPaths :
          LET scope == ScopeOf(path)
              cached == CachedFor(a_tokens, scope)
              begun == [a_flow[r] EXCEPT !.path = path, !.scope = scope,
                                         !.cached = cached]
          IN /\ a_flow[r].pc = "new"
             /\ \A q \in DOMAIN a_flow : q < r => a_flow[q].pc # "new"
             /\ IF scope = NoScope
                THEN /\ a_flow' = [a_flow EXCEPT ![r] =
                                      [begun EXCEPT !.pc = "raised", !.error = "ValueError"]]
                     /\ UNCHANGED a_sent
                ELSE IF TokenValid(cached, a_now)
                THEN /\ a_flow' = [a_flow EXCEPT ![r] = [begun EXCEPT !.pc = "cached_sent"]]
                     /\ Sends(r, "registry", scope, cached.token)
                ELSE /\ a_flow' = [a_flow EXCEPT ![r] = [begun EXCEPT !.pc = "first_sent"]]
                     /\ Sends(r, "registry", scope, 0)
    /\ UNCHANGED <<pc, entry, current_limits, error, runVars, listVars, verifyVars, a_now, a_tokens,
                   a_next_token, sessionVars>>

\* a 401 to the request sent with the cached token evicts the entry
AuthCachedResponseEvicts ==
    /\ pc = "auth"
    /\ \E r \in DOMAIN a_flow : \E status \in {200, 401} :
          /\ a_flow[r].pc = "cached_sent"
          /\ FlowEnds(r, "returned", "", status)
          /\ a_tokens' = IF status = 401
                         THEN [s \in DOMAIN a_tokens \ {a_flow[r].scope} |-> a_tokens[s]]
                         ELSE a_tokens
    /\ UNCHANGED <<pc, entry, current_limits, error, runVars, listVars, verifyVars, a_now,
                   a_sent, a_next_token, sessionVars>>

\* lines 115-116: the response to the request sent with the cached token
\* ends the flow
AuthCachedResponse ==
    /\ pc = "auth"
    /\ \E r \in DOMAIN a_flow : \E status \in {200, 401} :
          /\ a_flow[r].pc = "cached_sent"
          /\ FlowEnds(r, "returned", "", status)
    /\ UNCHANGED <<pc, entry, current_limits, error, runVars, listVars, verifyVars, a_now, a_tokens,
                   a_sent, a_next_token, sessionVars>>

\* lines 119-146: the response to the unauthenticated request, the challenge
\* and the token request
AuthFirstResponse ==
    /\ pc = "auth"
    /\ \E r \in DOMAIN a_flow : \E resp \in UnauthenticatedResponses :
          LET seen == [a_flow[r] EXCEPT !.status = resp.status,
                                        !.challenge = resp.challenge]
          IN /\ a_flow[r].pc = "first_sent"
             /\ IF resp.status # 401 \/ resp.challenge = "none"
                THEN /\ a_flow' = [a_flow EXCEPT ![r] = [seen EXCEPT !.pc = "returned"]]
                     /\ UNCHANGED a_sent
                ELSE IF ~ChallengeParses(resp.challenge)
                THEN /\ a_flow' = [a_flow EXCEPT ![r] =
                                      [seen EXCEPT !.pc = "raised", !.error = "ValueError"]]
                     /\ UNCHANGED a_sent
                ELSE /\ a_flow' = [a_flow EXCEPT ![r] = [seen EXCEPT !.pc = "token_sent"]]
                     /\ Sends(r, "token", a_flow[r].scope, 0)
    /\ UNCHANGED <<pc, entry, current_limits, error, runVars, listVars, verifyVars, a_now, a_tokens,
                   a_next_token, sessionVars>>

\* lines 147-161: the token response, the cache entry and the retry
AuthTokenResponse ==
    /\ pc = "auth"
    /\ \E r \in DOMAIN a_flow : \E token_resp \in TokenResponses :
          /\ a_flow[r].pc = "token_sent"
          /\ IF token_resp.status # 200
             THEN /\ FlowEnds(r, "raised", "HTTPStatusError", token_resp.status)
                  /\ UNCHANGED <<a_sent, a_tokens, a_next_token>>
             ELSE IF ~token_resp.has_token
             THEN /\ FlowEnds(r, "raised", "ValueError", token_resp.status)
                  /\ UNCHANGED <<a_sent, a_tokens, a_next_token>>
             ELSE LET new_token == a_next_token + 1
                      entry_for_scope ==
                          [token |-> new_token,
                           expires_at |-> a_now + ExpiresIn(token_resp) - ExpiryBuffer]
                  IN /\ a_next_token' = new_token
                     /\ a_tokens' = [s \in DOMAIN a_tokens \cup {a_flow[r].scope} |->
                                        IF s = a_flow[r].scope THEN entry_for_scope
                                        ELSE a_tokens[s]]
                     /\ a_flow' = [a_flow EXCEPT ![r].pc = "retry_sent",
                                                 ![r].expires_in = token_resp.expires_in]
                     /\ Sends(r, "registry", a_flow[r].scope, new_token)
    /\ UNCHANGED <<pc, entry, current_limits, error, runVars, listVars, verifyVars, a_now, sessionVars>>

\* line 161: the response to the retried request ends the flow
AuthRetryResponse ==
    /\ pc = "auth"
    /\ \E r \in DOMAIN a_flow : \E status \in {200, 401} :
          /\ a_flow[r].pc = "retry_sent"
          /\ FlowEnds(r, "returned", "", status)
    /\ UNCHANGED <<pc, entry, current_limits, error, runVars, listVars, verifyVars, a_now, a_tokens,
                   a_sent, a_next_token, sessionVars>>

\* time passes, one buffer length at a time
AuthTick ==
    /\ pc = "auth"
    /\ a_now < MaxTicks * ExpiryBuffer
    /\ a_now' = a_now + ExpiryBuffer
    /\ UNCHANGED <<pc, entry, current_limits, error, runVars, listVars, verifyVars, a_tokens, a_flow,
                   a_sent, a_next_token, sessionVars>>

InitAuth ==
    /\ pc = "auth"
    /\ entry = "registry"
    /\ config = UntaggedConfig("true")
    /\ InitRun
    /\ InitList
    /\ IdleClient
    /\ IdleVerifier
    /\ a_now = 0
    /\ a_tokens = EmptyMap
    /\ a_flow = [r \in 1..MaxRequests |->
                    [pc |-> "new", path |-> <<>>, scope |-> NoScope, error |-> "",
                     status |-> 0, cached |-> NoToken, challenge |-> "none",
                     expires_in |-> 0]]
    /\ a_sent = [r \in 1..MaxRequests |-> <<>>]
    /\ a_next_token = 0

NextAuth ==
    \/ AuthStart
    \/ AuthCachedResponse
    \/ AuthFirstResponse
    \/ AuthTokenResponse
    \/ AuthRetryResponse
    \/ AuthTick

SpecAuth == InitAuth /\ [][NextAuth]_vars

----------------------------------------------------------------------------
(* Properties of the two entry points *)

\* the ephemeral run has computed tags_to_delete and tags_to_keep
DeletionComputed ==
    /\ entry = "ephemeral"
    /\ \/ pc \in {"delete", "afterdelete", "verifying", "done", "done_noimages"}
       \/ pc = "failed" /\ error \in {"RateLimitError", "Exception", "KeyError"}

\* the untagged run has left the sweep loop normally
SweepDone ==
    /\ entry = "untagged"
    /\ \/ pc \in {"delete", "afterdelete", "verifying", "done", "done_nothing"}
       \/ pc = "failed" /\ error \in {"RateLimitError", "Exception"}

FilteredTags == {pkgs_matching_re[i].tags[1] : i \in DOMAIN pkgs_matching_re}

AllActiveTags == UNION {Range(active_versions[i].tags) : i \in DOMAIN active_versions}

DeleteFlagSet == config.delete_arg \in {"true", "True", "TRUE", "1"}

\* C1: in an ephemeral run a version carrying more than one tag has none of
\* its tags in the deletion list and never receives a delete request, also
\* when its tags match the regex.
C1_MultiTaggedNeverDeleted ==
    entry = "ephemeral" =>
        \A i \in DOMAIN active_versions :
            Len(active_versions[i].tags) > 1 =>
                /\ Range(active_versions[i].tags) \cap Range(tags_to_delete) = {}
                /\ \A k \in DOMAIN registry_requests :
                       registry_requests[k].id # active_versions[i].id

C1_Witness ==
    /\ entry = "ephemeral"
    /\ registry_requests # <<>>
    /\ \E i \in DOMAIN active_versions :
          /\ Len(active_versions[i].tags) > 1
          /\ \A k \in DOMAIN active_versions[i].tags :
                 ReMatch(config.match_regex, active_versions[i].tags[k]).matched

\* C2: branch scheme: the deletion set is the tags of the filtered versions
\* minus the branch names; a filtered tag survives exactly when a live branch
\* has the same name.
C2_BranchDeletionSet ==
    (DeletionComputed /\ config.scheme = "branch") =>
        Range(tags_to_delete) = {t \in FilteredTags : t \notin branch_names}

C2_Witness ==
    /\ config.scheme = "branch"
    /\ pc = "delete"
    /\ FilteredTags \cap branch_names # {}
    /\ tags_to_delete # <<>>

\* the pull-request number Python extracts, 0 when there is none
ExpectedPrNumber(pattern, tag) ==
    CASE pattern = PatDigits /\ tag = TagP1 -> 1
      [] pattern = PatDigits /\ tag = TagP2x -> 2
      [] pattern = PatAlt /\ tag = TagP1 -> 1
      [] pattern = PatAlt /\ tag = TagP2x -> 2
      [] pattern = PatWord /\ tag = TagP1 -> 1
      [] OTHER -> 0

\* C3: pull-request scheme: the number fetched for a filtered tag is the first
\* non-null capturing group, and the tag is in the deletion set exactly when
\* that pull request was fetched and its state is closed in any letter case.
C3_PullRequestDeletionSet ==
    (DeletionComputed /\ config.scheme = "pull_request") =>
        \A t \in FilteredTags :
            /\ t \in DOMAIN pr_fetched <=> ExpectedPrNumber(config.match_regex, t) # 0
            /\ t \in DOMAIN pr_fetched =>
                   pr_fetched[t].number = ExpectedPrNumber(config.match_regex, t)
            /\ t \in Range(tags_to_delete) <=>
                   (t \in DOMAIN pr_fetched /\ pr_fetched[t].state \in {"closed", "CLOSED"})

C3_Witness ==
    /\ config.scheme = "pull_request"
    /\ pc = "delete"
    /\ \E t \in Range(tags_to_delete) : pr_fetched[t].state = "CLOSED"
    /\ \E t \in DOMAIN pr_fetched : pr_fetched[t].state = "open"

\* C4: pull-request scheme: a tag from which no pull-request number can be
\* extracted is kept, no pull request is fetched for it, and the strategy
\* goes on with the remaining versions instead of failing.
C4_ExtractionFailureKeepsTag ==
    (entry = "ephemeral" /\ config.scheme = "pull_request") =>
        /\ error # "ValueError"
        /\ \A t \in pr_skipped :
               t \notin Range(tags_to_delete) /\ t \notin DOMAIN pr_fetched

\* C5: untagged sweep: the deletion set is exactly the untagged versions whose
\* digest is not listed by the multi-architecture index (by declared media
\* type) of a kept tag whose manifest was fetched; a referenced digest is
\* never deleted.
C5_UntaggedDeletionSet ==
    SweepDone =>
        /\ Names(untagged_versions) = initial_untagged \ declared_refs
        /\ \A k \in DOMAIN registry_requests :
               registry_requests[k].name \notin declared_refs

\* C6: untagged sweep: a kept tag whose manifest cannot be fetched (status
\* error, transport error, unparseable manifest) is skipped; the sweep never
\* ends abnormally because of it.
C6_SweepSurvivesFetchFailure ==
    entry = "untagged" =>
        ~(pc = "failed" /\ error \in {"TransportError", "ValueError"})

\* C7: dry run: with the delete flag unset no delete or restore request is
\* sent and the verification pass is not started, in both entry points.
C7_DryRunSendsNothing ==
    ~DeleteFlagSet => (registry_requests = <<>> /\ ~verify_started)

C7_Witness ==
    /\ ~DeleteFlagSet
    /\ pc = "done"
    /\ \/ entry = "ephemeral" /\ tags_to_delete # <<>>
       \/ entry = "untagged" /\ untagged_versions # <<>>

\* C8: ephemeral run: the keep-set handed to the verifier is the tags of all
\* active tagged versions minus the deletion set.
C8_KeepSetIsComplement ==
    (entry = "ephemeral" /\ verify_started) =>
        verify_tags = AllActiveTags \ Range(tags_to_delete)

----------------------------------------------------------------------------
(* Properties of the paginated listing *)

RECURSIVE PagesUpTo(_, _)
PagesUpTo(n, last) ==
    IF n = 0 THEN <<>> ELSE PagesUpTo(n - 1, last) \o PageItems(n, last)

\* C9: when the Link header names a last page N > 1, list() returns the items
\* of the pages 1..N in ascending page order, whatever the order in which the
\* requests for the pages 2..N complete.
C9_PagesInOrder ==
    (pc = "returned" /\ l_last_page > 1) =>
        l_returned = PagesUpTo(l_last_page, l_last_page)

C9_Witness ==
    /\ pc = "returned"
    /\ l_last_page >= 3
    /\ l_out_of_order

\* C10: during one list() call at most 10 page requests are in flight at the
\* same time, however many pages there are.
C10_AtMostTenInFlight == Cardinality(InFlight) <= 10

C10_Witness ==
    /\ Cardinality(InFlight) = 10
    /\ \E p \in DOMAIN l_page_state : l_page_state[p] = "created"

----------------------------------------------------------------------------
(* Properties of the rate-limit check of the API client *)

\* request k is suspended in _check_rate_limit
Suspended(state, pages, k) ==
    IF k = 1 THEN state = "asleep"
    ELSE k \in DOMAIN pages /\ pages[k] = "sleeping"

\* C11: a response with a remaining quota below the threshold (100) and a
\* reset timestamp suspends the request that read it for
\* max(0, reset - now + 5) seconds: when that is positive the request sleeps
\* until reset + 5 and proceeds no earlier, when it is 0 it proceeds at once.
C11_SleepsUntilResetPlusFive ==
    [][\A k \in DOMAIN l_hdr' :
          LET hdr == l_hdr'[k]
              read == IF k = 1
                      THEN pc \in {"first", "get", "delete_resource"} /\ pc' # pc
                      ELSE /\ k \in DOMAIN l_page_state
                           /\ l_page_state[k] = "inflight"
                           /\ l_page_state'[k] # "inflight"
              low == hdr.has_remaining /\ hdr.remaining < 100 /\ hdr.reset # 0
              after == Suspended(pc', l_page_state', k)
          IN /\ (read /\ low /\ hdr.reset - now + 5 > 0) =>
                    (after /\ l_wake'[k] = now + (hdr.reset - now + 5))
             /\ (read /\ low /\ hdr.reset - now + 5 <= 0) => ~after
             /\ (Suspended(pc, l_page_state, k) /\ ~after) => now >= l_wake[k]]_vars

C11_Witness ==
    \E p \in DOMAIN l_page_state :
        /\ l_page_state[p] = "sleeping"
        /\ l_hdr[p].remaining = 99
        /\ l_wake[p] = 108
        /\ now = 100

\* C12: once a response with a remaining quota below the threshold has put a
\* request to sleep, the client sends no request until the sleep is over.
C12_NoRequestDuringSleep == ~l_issued_during_sleep

\* C13: an operation of the API client that fails on a 403 response with a
\* remaining quota of 0 fails with RateLimitError, not with the HTTP error of
\* the other statuses.
C13_ForbiddenAtZeroIsRateLimit ==
    (/\ pc = "failed"
     /\ l_error_resp.status = 403
     /\ l_error_resp.has_remaining
     /\ l_error_resp.remaining = 0) => error = "RateLimitError"

----------------------------------------------------------------------------
(* Properties of the deletion of package versions *)

\* C14: delete of a package version classifies its response: 204 returns
\* without a warning, 403 with a remaining quota of 0 or less raises
\* RateLimitError, every other response (a 403 with a positive remaining
\* quota included) logs a warning and returns.
C14_DeleteClassifiesResponse ==
    LET rate_limited == /\ last_delete.status = 403
                        /\ last_delete.has_remaining
                        /\ last_delete.remaining <= 0
    IN last_delete.status # 0 =>
          /\ last_delete.status = 204 => last_delete.outcome = "ok"
          /\ rate_limited => last_delete.outcome = "RateLimitError"
          /\ (last_delete.status # 204 /\ ~rate_limited) =>
                last_delete.outcome = "warning"

\* the versions the deletion loop is to delete, in loop order
DeletionMembers ==
    IF entry = "ephemeral"
    THEN [i \in DOMAIN tags_to_delete |-> all_pkgs_tags_to_version[tags_to_delete[i]].id]
    ELSE [i \in DOMAIN untagged_versions |-> untagged_versions[i].id]

DeleteRequestsOf(id) ==
    {i \in DOMAIN registry_requests :
        registry_requests[i].method = "DELETE" /\ registry_requests[i].id = id}

----------------------------------------------------------------------------
(* Properties of the verifier *)

\* C16: a kept tag is reported failed exactly when its own manifest fetch
\* failed or a digest manifest fetch under it failed, and the verification
\* ends in a failure exactly when a kept tag failed.
C16_FailureAggregation ==
    /\ \A t \in DOMAIN v_result :
          v_result[t] # "none" =>
             (v_result[t] = "False" <=>
                \/ v_fetch[t].outcome # "ok"
                \/ \E k \in DOMAIN v_digest[t] :
                      v_digest[t][k].state \in {"False", "exception"})
    /\ (entry = "verify" /\ pc \in {"verified", "failed"}) =>
          (pc = "failed" <=> \E t \in DOMAIN v_result : v_result[t] = "False")

C16_Witness ==
    /\ pc = "failed"
    /\ error = "Exception"
    /\ \E t \in DOMAIN v_digest :
          /\ Len(v_digest[t]) = 3
          /\ v_digest[t][1].state = "True"
          /\ v_digest[t][2].state = "False"
          /\ v_digest[t][3].state = "True"
          /\ v_result[t] = "False"

\* C17: when the verdict is produced the check of every kept tag has run to
\* True or False and every digest check it started has finished, whichever
\* fetches failed: a failure under one tag does not end the check of another.
C17_EveryTagCheckedBeforeVerdict ==
    (entry = "verify" /\ pc \in {"verified", "failed"}) =>
        \A i \in DOMAIN v_tags :
            /\ v_result[v_tags[i]] \in {"True", "False"}
            /\ v_tag_state[v_tags[i]] = "done"
            /\ \A k \in DOMAIN v_digest[v_tags[i]] :
                  v_digest[v_tags[i]][k].state \in {"True", "False", "exception"}

C17_Witness ==
    /\ pc = "failed"
    /\ Len(v_tags) = 2
    /\ v_fetch[v_tags[1]].outcome = "HTTPStatusError"
    /\ v_result[v_tags[1]] = "False"
    /\ v_result[v_tags[2]] = "True"
    /\ Len(v_digest[v_tags[2]]) = 3

\* C18: at any time at most tag_concurrency tag manifest fetches and at most
\* digest_concurrency digest manifest fetches are in flight, the digest
\* fetches counted over all tags; the two limits are separate.
C18_ConcurrencyBounds ==
    /\ Cardinality({t \in DOMAIN v_tag_state : v_tag_state[t] = "fetching"})
          <= v_tag_concurrency
    /\ Cardinality({<<t, k>> \in UNION {{t} \X DOMAIN v_digest[t] : t \in DOMAIN v_digest} :
                       v_digest[t][k].state = "fetching"})
          <= v_digest_concurrency

C18_Witness ==
    /\ v_tag_concurrency = 1
    /\ Cardinality(TagsFetching) = 1
    /\ v_digest_concurrency = 2
    /\ Cardinality(DigestsFetching) = 2
    /\ \E t \in DOMAIN v_digest : \E k \in DOMAIN v_digest[t] :
          v_digest[t][k].state = "waiting"

\* C19: a kept tag whose manifest is a multi-architecture index passes only
\* if the manifest of every digest referenced by a descriptor of the index
\* was fetched again and every one of these fetches succeeded.
C19_EveryReferencedDigestChecked ==
    \A t \in DOMAIN v_result :
        (/\ v_result[t] = "True"
         /\ v_fetch[t].outcome = "ok"
         /\ DeclaredMediaType(v_fetch[t].resp) \in MultiArchMediaTypes) =>
            \A i \in DOMAIN v_fetch[t].resp.body.manifests :
                LET d == v_fetch[t].resp.body.manifests[i]
                IN d.digest # "" =>
                      \E k \in DOMAIN v_digest[t] :
                          /\ v_digest[t][k].digest = d.digest
                          /\ v_digest[t][k].state = "True"

----------------------------------------------------------------------------
(* Properties of the token cache *)

\* C20: a registry request for scope S that starts while the cache holds a
\* token for S with now < expires_at is sent exactly once, with that token
\* attached: its flow sends no unauthenticated request and no token request,
\* and ends with the response to that one request.
C20_CacheHitSendsOnce ==
    [][\A r \in DOMAIN a_flow :
          LET s == ScopeOf(a_flow'[r].path)
              hit == /\ a_flow[r].pc = "new"
                     /\ a_flow'[r].pc # "new"
                     /\ s # NoScope
                     /\ s \in DOMAIN a_tokens
                     /\ a_now < a_tokens[s].expires_at
          IN /\ hit => /\ a_flow'[r].pc = "cached_sent"
                       /\ a_sent'[r] = <<[kind |-> "registry", scope |-> s,
                                          token |-> a_tokens[s].token]>>
             /\ a_flow[r].pc = "cached_sent" =>
                    /\ a_sent'[r] = a_sent[r]
                    /\ a_flow'[r].pc \in {"cached_sent", "returned"}
             /\ a_flow[r].pc = "returned" => a_flow'[r] = a_flow[r] /\ a_sent'[r] = a_sent[r]]_vars

C20_Witness ==
    \E r \in DOMAIN a_flow :
        /\ a_flow[r].pc = "returned"
        /\ a_flow[r].status = 200
        /\ a_now = ExpiryBuffer
        /\ a_flow[r].scope \in DOMAIN a_tokens
        /\ a_tokens[a_flow[r].scope].expires_at = DefaultExpiresIn - ExpiryBuffer
        /\ a_sent[r] = <<[kind |-> "registry", scope |-> a_flow[r].scope,
                          token |-> a_tokens[a_flow[r].scope].token]>>

\* C21: a request for scope S that starts with no valid cached token is first
\* sent without a token; once its flow has answered a 401 challenge carrying
\* realm and service it has sent exactly one token request, with scope S;
\* the step that receives the token stores it under S with
\* expires_at = now + server expiry - 30 (300 when the server names none) and
\* resends the request with that token; no flow sends more than these three
\* requests, so a 401 to the retry is not retried.
C21_ChallengeFlow ==
    [][\A r \in DOMAIN a_flow :
          LET S == a_flow'[r].scope
              sent == a_sent'[r]
              miss == /\ a_flow[r].pc = "new"
                      /\ a_flow'[r].pc # "new"
                      /\ S # NoScope
                      /\ (S \notin DOMAIN a_tokens \/ a_now >= a_tokens[S].expires_at)
              got_token == a_flow[r].pc = "token_sent" /\ a_flow'[r].pc = "retry_sent"
              server_expiry == IF a_flow'[r].expires_in = 0 THEN 300
                               ELSE a_flow'[r].expires_in
          IN /\ miss => sent = <<[kind |-> "registry", scope |-> S, token |-> 0]>>
             /\ (a_flow'[r].pc \in {"token_sent", "retry_sent"}) =>
                    /\ a_flow'[r].status = 401
                    /\ a_flow'[r].challenge = "realm_service"
                    /\ Len(sent) >= 2
                    /\ sent[2] = [kind |-> "token", scope |-> S, token |-> 0]
             /\ got_token =>
                    /\ Len(sent) = 3
                    /\ sent[3].kind = "registry" /\ sent[3].scope = S /\ sent[3].token # 0
                    /\ a_tokens'[S] = [token |-> sent[3].token,
                                       expires_at |-> a_now + server_expiry - 30]
                    /\ \A q \in DOMAIN a_flow : q # r => a_sent'[q] = a_sent[q]
             /\ Len(sent) <= 3
             /\ Cardinality({i \in DOMAIN sent : sent[i].kind = "token"}) <= 1
             /\ a_flow[r].pc = "retry_sent" =>
                    /\ sent = a_sent[r]
                    /\ a_flow'[r].pc \in {"retry_sent", "returned"}]_vars

\* a retried request answered with 401: the flow has ended after three
\* requests and the token it fetched without expires_in is in the cache
C21_Witness ==
    \E r \in DOMAIN a_flow :
        /\ a_flow[r].pc = "returned"
        /\ a_flow[r].status = 401
        /\ Len(a_sent[r]) = 3
        /\ a_sent[r][1].token = 0
        /\ a_sent[r][2].kind = "token"
        /\ a_flow[r].expires_in = 0
        /\ a_tokens[a_flow[r].scope] =
               [token |-> a_sent[r][3].token,
                expires_at |-> a_now + DefaultExpiresIn - ExpiryBuffer]

\* C22: a request is sent with the token of a cache entry only when, at the
\* step that attaches it, now < expires_at of that entry; a request that
\* starts when now >= expires_at is sent without a token, as for a scope that
\* has no entry; and an entry only ever changes to a value with a token that
\* was not issued before, written by the flow that fetched it.
C22_TokenUsableOnlyBeforeExpiry ==
    [][/\ \A r \in DOMAIN a_flow :
            LET S == a_flow'[r].scope
                starts == a_flow[r].pc = "new" /\ a_flow'[r].pc # "new" /\ S # NoScope
            IN /\ (starts /\ a_sent'[r][1].token # 0) =>
                      /\ S \in DOMAIN a_tokens
                      /\ a_now < a_tokens[S].expires_at
                      /\ a_sent'[r][1].token = a_tokens[S].token
               /\ (starts /\ S \in DOMAIN a_tokens /\ a_now >= a_tokens[S].expires_at) =>
                      /\ a_flow'[r].pc = "first_sent"
                      /\ a_sent'[r] = <<[kind |-> "registry", scope |-> S, token |-> 0]>>
       /\ \A s \in DOMAIN a_tokens' :
            (s \notin DOMAIN a_tokens \/ a_tokens'[s] # a_tokens[s]) =>
                /\ a_tokens'[s].token > a_next_token
                /\ \E r \in DOMAIN a_flow :
                      /\ a_flow[r].pc = "token_sent"
                      /\ a_flow[r].scope = s
                      /\ a_sent'[r] = Append(a_sent[r], [kind |-> "registry", scope |-> s,
                                                         token |-> a_tokens'[s].token])
       /\ DOMAIN a_tokens \subseteq DOMAIN a_tokens']_vars

\* a request that found an expired entry for its scope went through the
\* challenge, and the entry now holds the token it fetched
C22_Witness ==
    \E r \in DOMAIN a_flow :
        /\ a_flow[r].cached # NoToken
        /\ a_flow[r].cached.token # 0
        /\ Len(a_sent[r]) = 3
        /\ a_sent[r][1].token = 0
        /\ a_tokens[a_flow[r].scope].token = a_sent[r][3].token
        /\ a_tokens[a_flow[r].scope].token # a_flow[r].cached.token

\* C23: a flow whose unauthenticated request is answered with a status other
\* than 401, or with a 401 without a Www-Authenticate header, returns that
\* response: no request is sent and the cache is unchanged; a 401 whose
\* challenge lacks realm or service, and a token response without a token,
\* end the flow with ValueError, the cache unchanged and nothing more sent;
\* a flow that has ended sends nothing afterwards.
C23_NoRetryAndHardErrors ==
    [][\A r \in DOMAIN a_flow :
          LET answered == a_flow[r].pc = "first_sent" /\ a_flow'[r].pc # "first_sent"
              status == a_flow'[r].status
              challenge == a_flow'[r].challenge
              token_answered == a_flow[r].pc = "token_sent" /\ a_flow'[r].pc # "token_sent"
          IN /\ (answered /\ (status # 401 \/ challenge = "none")) =>
                    /\ a_flow'[r].pc = "returned"
                    /\ a_flow'[r].error = ""
                    /\ a_sent' = a_sent
                    /\ a_tokens' = a_tokens
             /\ (answered /\ status = 401 /\ challenge \in {"service_only", "realm_only"}) =>
                    /\ a_flow'[r].pc = "raised"
                    /\ a_flow'[r].error = "ValueError"
                    /\ a_sent' = a_sent
                    /\ a_tokens' = a_tokens
             /\ token_answered =>
                    \/ /\ a_flow'[r].pc = "retry_sent"
                       /\ a_flow'[r].scope \in DOMAIN a_tokens'
                    \/ /\ a_flow'[r].pc = "raised"
                       /\ a_flow'[r].error =
                              (IF status = 200 THEN "ValueError" ELSE "HTTPStatusError")
                       /\ a_sent' = a_sent
                       /\ a_tokens' = a_tokens
             /\ a_flow[r].pc \in {"raised", "returned"} =>
                    /\ a_flow'[r] = a_flow[r]
                    /\ a_sent'[r] = a_sent[r]]_vars

\* one flow ended on a 403 that carried a challenge, another on a token
\* response without a token: neither left an entry in the cache
C23_Witness ==
    \E r, q \in DOMAIN a_flow :
        /\ a_flow[r].pc = "returned"
        /\ a_flow[r].status = 403
        /\ a_flow[r].challenge = "realm_service"
        /\ Len(a_sent[r]) = 1
        /\ a_flow[q].pc = "raised"
        /\ a_flow[q].error = "ValueError"
        /\ a_flow[q].status = 200
        /\ Len(a_sent[q]) = 2
        /\ a_tokens = EmptyMap

----------------------------------------------------------------------------
(* Properties of get_manifest *)

\* C24: the media type of a fetched manifest is the first part of the
\* Content-Type header, or the mediaType field of the JSON body when the
\* header gives none; get_manifest returns the body as the variant that media
\* type names when it is one of the four known types and raises ValueError
\* for any other.
C24_MediaTypeDispatch ==
    \A t \in DOMAIN v_fetch :
        LET resp == v_fetch[t].resp
            header == IF resp.content_type = <<>> THEN "" ELSE resp.content_type[1]
            media_type == IF header = "" THEN resp.body.mediaType ELSE header
            variant ==
                [m \in {"application/vnd.oci.image.index.v1+json",
                        "application/vnd.docker.distribution.manifest.list.v2+json",
                        "application/vnd.oci.image.manifest.v1+json",
                        "application/vnd.docker.distribution.manifest.v2+json"} |->
                    CASE m = "application/vnd.oci.image.index.v1+json" -> "OCIImageIndex"
                      [] m = "application/vnd.docker.distribution.manifest.list.v2+json" ->
                             "DockerManifestList"
                      [] m = "application/vnd.oci.image.manifest.v1+json" -> "OCIManifest"
                      [] OTHER -> "DockerManifestV2"]
        IN v_fetch[t].outcome \in {"ok", "ValueError"} =>
              IF media_type \in DOMAIN variant
              THEN v_fetch[t].outcome = "ok" /\ v_fetch[t].parsed = variant[media_type]
              ELSE v_fetch[t].outcome = "ValueError"

\* one manifest taken from the body of a response without a Content-Type
\* header, another refused although its body names a known media type
C24_Witness ==
    \E t, u \in DOMAIN v_fetch :
        /\ v_fetch[t].resp.content_type = <<>>
        /\ v_fetch[t].outcome = "ok"
        /\ v_fetch[t].parsed = "DockerManifestV2"
        /\ v_fetch[u].resp.content_type = <<"application/json">>
        /\ v_fetch[u].resp.body.mediaType = DOCKER_MANIFEST_MEDIA_TYPE
        /\ v_fetch[u].outcome = "ValueError"

\* C25: however the flows of concurrent requests interleave, a flow that has
\* completed its challenge has retried with a token of its own, issued in
\* answer to its token request for the repository of its path, and the
\* cache entry of every scope holds a token that one of the flows for that
\* repository fetched.
C25_BenignTokenRace ==
    /\ \A r \in DOMAIN a_flow :
          Len(a_sent[r]) = 3 =>
              /\ a_sent[r][2] = [kind |-> "token",
                                 scope |-> SubSeq(a_flow[r].path, 2, Len(a_flow[r].path) - 2),
                                 token |-> 0]
              /\ a_sent[r][3].kind = "registry"
              /\ a_sent[r][3].token \in 1..a_next_token
              /\ \A q \in DOMAIN a_flow \ {r} :
                    Len(a_sent[q]) = 3 => a_sent[q][3].token # a_sent[r][3].token
    /\ \A s \in DOMAIN a_tokens :
          \E q \in DOMAIN a_flow :
              /\ Len(a_sent[q]) = 3
              /\ SubSeq(a_flow[q].path, 2, Len(a_flow[q].path) - 2) = s
              /\ a_sent[q][3].token = a_tokens[s].token

\* two requests for one repository both started without an entry in the
\* cache, both fetched a token and both were retried; the cache holds the
\* token that was fetched last
C25_Witness ==
    \E r, q \in DOMAIN a_flow :
        /\ r # q
        /\ a_flow[r].path = a_flow[q].path
        /\ a_flow[r].cached = NoToken /\ a_flow[q].cached = NoToken
        /\ Len(a_sent[r]) = 3 /\ Len(a_sent[q]) = 3
        /\ a_flow[r].pc = "returned" /\ a_flow[q].pc = "returned"
        /\ a_sent[r][3].token < a_sent[q][3].token
        /\ a_tokens[a_flow[r].scope].token = a_sent[q][3].token

----------------------------------------------------------------------------
(* Properties of the session of the API client *)

\* C26: once the session of an API client has ended, after its operation
\* returned or raised, the client has no Authorization header and is closed;
\* every request the client has sent carried the Authorization header.
C26_ScopedSession ==
    /\ pc = "exited" => ("Authorization" \notin c_headers /\ c_closed)
    /\ (entry \in {"list", "get", "delete"} /\ pc # "exited") =>
           ("Authorization" \in c_headers /\ ~c_closed)
    /\ \A sent \in c_sent : "Authorization" \in sent

\* a listing that raised while a page task was still waiting for the
\* semaphore: the session has ended and the task was refused by the closed
\* client
C26_Witness ==
    /\ pc = "exited"
    /\ error = "HTTPStatusError"
    /\ c_sent # {}
    /\ \E p \in DOMAIN l_page_state : l_page_state[p] = "refused"

----------------------------------------------------------------------------
(* Properties of the deletion set as a function of its inputs *)

\* the version list in another order, with the tags of every version in
\* their listed or in the opposite order
Relisted(versions) ==
    {[i \in DOMAIN versions |->
        [versions[order[i]] EXCEPT
            !.tags = IF flip THEN [k \in DOMAIN @ |-> @[Len(@) + 1 - k]] ELSE @]] :
       order \in {f \in [DOMAIN versions -> DOMAIN versions] :
                    \A i, j \in DOMAIN versions : f[i] = f[j] => i = j},
       flip \in BOOLEAN}

\* steps 2 and 3 of _main computed again, from the version list given and the
\* branches and pull-request states of the run
DeletionSetOf(versions) ==
    LET matched == PkgsMatchingRe(versions, config.match_regex)
    IN IF config.scheme = "branch"
       THEN BranchTagsToDelete(matched, branch_names, config.match_regex)
       ELSE {matched[i].tags[1] : i \in
               {k \in DOMAIN matched :
                  /\ PrDecision(matched[k], config.match_regex).kind = "fetch"
                  /\ matched[k].tags[1] \in DOMAIN pr_fetched
                  /\ Closed(pr_fetched[matched[k].tags[1]].state)}}

\* the state in which steps 2 and 3 have just produced the deletion list,
\* which nothing changes afterwards
DeletionJustComputed ==
    /\ DeletionComputed
    /\ pc \in {"delete", "done_noimages"}
    /\ delete_index = 1
    /\ registry_requests = <<>>

\* C27: the deletion set of a run is the set of tags that steps 2 and 3 yield
\* when they are computed again from the same versions, regex and branches
\* or pull-request states, and also when the versions and the tags inside
\* them are listed in any other order.
C27_DeletionSetIdempotent ==
    DeletionJustComputed =>
        \A versions \in Relisted(active_versions) :
            DeletionSetOf(versions) = Range(tags_to_delete)

\* two single-tagged versions that both match, one of them deleted and one
\* kept: listing them in the other order gives the same set
C27_Witness ==
    /\ DeletionComputed
    /\ Len(active_versions) = 2
    /\ Len(pkgs_matching_re) = 2
    /\ Len(tags_to_delete) = 1
    /\ Cardinality(Relisted(active_versions)) > 1

----------------------------------------------------------------------------
(* Properties of the rate-limit poll at the start of a run *)

\* C28: the poll reports limited exactly when remaining <= 0, and a run whose
\* poll reported limited has ended there: it has listed no package versions,
\* sent no delete request and started no verification.
C28_LimitedPollEndsRun ==
    /\ current_limits.polled =>
           (pc = "done_limited" <=> current_limits.remaining <= 0)
    /\ (current_limits.polled /\ current_limits.remaining <= 0) =>
           /\ active_versions = <<>>
           /\ registry_requests = <<>>
           /\ ~verify_started
           /\ tags_to_delete = <<>>

\* a poll that returned remaining = 0
C28_Witness ==
    /\ current_limits = [polled |-> TRUE, remaining |-> 0]
    /\ pc = "done_limited"

----------------------------------------------------------------------------
(* Properties of the order of the phases of a run *)

\* C29: a delete request is sent only in the deletion loop, after the loop
\* over the pull requests has ended, and from the first delete request on
\* the deletion list and the untagged versions no longer change; after the
\* verification has started no delete request is sent; a run that failed
\* while listing versions or branches, fetching a pull request or reading a
\* tag has sent no delete request.
C29_PhaseOrdering ==
    [][/\ registry_requests' # registry_requests =>
             /\ pc = "delete"
             /\ ~verify_started /\ ~verify_started'
             /\ (entry = "ephemeral" /\ config.scheme = "pull_request") =>
                    pr_index > Len(pkgs_matching_re)
       /\ (registry_requests # <<>> \/ registry_requests' # <<>>) =>
             /\ tags_to_delete' = tags_to_delete
             /\ untagged_versions' = untagged_versions
       /\ verify_started => registry_requests' = registry_requests
       /\ (pc' = "failed" /\ error' \in {"HTTPStatusError", "ValueError"}) =>
             registry_requests' = <<>>]_vars

\* a run that sent two delete requests and then started the verification
C29_Witness ==
    /\ entry = "ephemeral"
    /\ config.scheme = "pull_request"
    /\ Len(registry_requests) = 2
    /\ verify_started

----------------------------------------------------------------------------
(* Properties of ContainerPackage.tag_matches *)

\* some prefix of the tag is a word of the pattern: the literal of one of
\* its alternatives, followed by one or more characters of its class when
\* the alternative has a group
MatchesAtStart(pattern, tag) ==
    \E a \in DOMAIN pattern, k \in 0..Len(tag) :
        LET lit == pattern[a].lit
            rest == SubSeq(tag, Len(lit) + 1, k)
        IN /\ k >= Len(lit)
           /\ SubSeq(tag, 1, Len(lit)) = lit
           /\ IF pattern[a].cls = "nogroup" THEN k = Len(lit)
              ELSE /\ k > Len(lit)
                   /\ \A j \in DOMAIN rest : InClass(pattern[a].cls, rest[j])

\* the state step 2 of _main leaves
FilterJustRan ==
    \/ pc \in {"branches", "done_nopkgs"}
    \/ pc = "pulls" /\ pr_index = 1 /\ pr_skipped = {} /\ DOMAIN pr_fetched = {}

\* C30: for every pattern and every version of the list the filter starts
\* from, tag_matches is true exactly when one of the version's tags has a
\* prefix the pattern matches, and false for a version without tags; the
\* versions the filter of a run has kept are the single-tagged ones whose tag
\* matches at its start.
C30_TagMatchesAnyTagAtStart ==
    /\ (entry = "ephemeral" /\ pc = "filter") =>
          \A i \in DOMAIN active_versions, P \in Patterns :
              LET pkg == active_versions[i]
              IN /\ TagMatches(pkg, P) <=>
                       \E k \in DOMAIN pkg.tags : MatchesAtStart(P, pkg.tags[k])
                 /\ pkg.tags = <<>> => ~TagMatches(pkg, P)
    /\ (entry = "ephemeral" /\ FilterJustRan) =>
          \A i \in DOMAIN active_versions :
              Len(active_versions[i].tags) = 1 =>
                  ((\E k \in DOMAIN pkgs_matching_re :
                        pkgs_matching_re[k] = active_versions[i])
                   <=> MatchesAtStart(config.match_regex, active_versions[i].tags[1]))

\* the filter kept a version whose tag p2x the pattern p(\d+) matches only
\* at its start, beside a version without tags
C30_Witness ==
    /\ entry = "ephemeral"
    /\ config.match_regex = PatDigits
    /\ \E k \in DOMAIN pkgs_matching_re : pkgs_matching_re[k].tags = <<TagP2x>>
    /\ \E i \in DOMAIN active_versions : active_versions[i].tags = <<>>

----------------------------------------------------------------------------
(* Properties of a rate limit met in the deletion loop *)

\* the members of the deletion set of the run, in the order of the loop
DeletionMemberIds ==
    IF entry = "ephemeral"
    THEN [k \in DOMAIN tags_to_delete |->
             IF tags_to_delete[k] \in DOMAIN all_pkgs_tags_to_version
             THEN all_pkgs_tags_to_version[tags_to_delete[k]].id ELSE 0]
    ELSE [k \in DOMAIN untagged_versions |-> untagged_versions[k].id]

\* C31: once a delete request of the deletion loop was answered 403 with a
\* remaining quota <= 0, the run has failed with RateLimitError at that
\* member: the request log ends with it, no later member of the deletion
\* set has a request, no step sends another request and the verification is
\* never started.
C31_RateLimitStopsDeletion ==
    [][/\ last_delete.outcome = "RateLimitError" =>
             /\ registry_requests' = registry_requests
             /\ ~verify_started'
       /\ last_delete'.outcome = "RateLimitError" =>
             /\ pc' = "failed" /\ error' = "RateLimitError"
             /\ ~verify_started'
             /\ Len(registry_requests') = delete_index'
             /\ \A k \in DOMAIN DeletionMemberIds' :
                    k > delete_index' =>
                        \A n \in DOMAIN registry_requests' :
                            registry_requests'[n].id # DeletionMemberIds'[k]]_vars

\* the first of two members was answered with the rate limit
C31_Witness ==
    /\ last_delete.outcome = "RateLimitError"
    /\ last_delete.status = 403
    /\ Len(DeletionMemberIds) = 2
    /\ Len(registry_requests) = 1
    /\ pc = "failed"

----------------------------------------------------------------------------
(* Properties of the versions an ephemeral run deletes *)

\* C32: in an ephemeral run every delete request names an active version
\* that carries exactly one tag, matched by the regex at its start; no
\* untagged version and no single-tagged version whose tag does not match
\* has a request; every tag of the deletion list is a key of
\* all_pkgs_tags_to_version, bound to the version that carries it, and the
\* lookup of the deletion loop has not failed.
C32_EphemeralDeletesOnlyMatchingSingleTagged ==
    entry = "ephemeral" =>
        /\ \A n \in DOMAIN registry_requests :
              \E i \in DOMAIN active_versions :
                  /\ active_versions[i].id = registry_requests[n].id
                  /\ Len(active_versions[i].tags) = 1
                  /\ ReMatch(config.match_regex, active_versions[i].tags[1]).matched
        /\ \A i \in DOMAIN active_versions :
              (\/ active_versions[i].tags = <<>>
               \/ /\ Len(active_versions[i].tags) = 1
                  /\ ~ReMatch(config.match_regex, active_versions[i].tags[1]).matched) =>
                  \A n \in DOMAIN registry_requests :
                      registry_requests[n].id # active_versions[i].id
        /\ \A k \in DOMAIN tags_to_delete :
              /\ tags_to_delete[k] \in DOMAIN all_pkgs_tags_to_version
              /\ all_pkgs_tags_to_version[tags_to_delete[k]].tags = <<tags_to_delete[k]>>
        /\ error # "KeyError"

\* a version was deleted while a single-tagged version whose tag the regex
\* does not match stayed
C32_Witness ==
    /\ entry = "ephemeral"
    /\ config.scheme = "branch"
    /\ registry_requests # <<>>
    /\ \E i \in DOMAIN active_versions :
          /\ active_versions[i].tags = <<TagM>>
          /\ ~ReMatch(config.match_regex, TagM).matched
          /\ TagM \notin branch_names

----------------------------------------------------------------------------
(* Properties of the versions an untagged run deletes *)

\* C33: in an untagged run every candidate for deletion and every version
\* named by a delete request is an active version without tags; a version
\* that carries a tag is never a candidate and never has a request, whatever
\* manifests the sweep has read.
C33_UntaggedDeletesOnlyUntagged ==
    entry = "untagged" =>
        /\ \A n \in DOMAIN registry_requests :
              /\ registry_requests[n].tags = <<>>
              /\ \E i \in DOMAIN active_versions :
                    /\ active_versions[i].id = registry_requests[n].id
                    /\ Len(active_versions[i].tags) = 0
        /\ \A k \in DOMAIN untagged_versions : Len(untagged_versions[k].tags) = 0
        /\ \A i \in DOMAIN active_versions :
              Len(active_versions[i].tags) >= 1 =>
                  /\ \A n \in DOMAIN registry_requests :
                         registry_requests[n].id # active_versions[i].id
                  /\ \A k \in DOMAIN untagged_versions :
                         untagged_versions[k].id # active_versions[i].id

\* an untagged version was deleted after the sweep had read an index for the
\* tag of a version that stayed
C33_Witness ==
    /\ entry = "untagged"
    /\ registry_requests # <<>>
    /\ declared_refs # {}
    /\ \E i \in DOMAIN active_versions : Len(active_versions[i].tags) >= 1

----------------------------------------------------------------------------
(* Properties of the order of the untagged sweep *)

\* C34: in an untagged run the candidates for deletion are the untagged
\* versions minus the digests listed by the indices the sweep has gone
\* through, a set that does not depend on the order of the kept tags; an
\* index that lists a digest an earlier index has listed is handled without
\* KeyError and removes only the digests not yet removed, and no run has
\* failed with KeyError.
C34_SweepOrderIndependent ==
    entry = "untagged" =>
        /\ error # "KeyError"
        /\ Names(untagged_versions) = initial_untagged \ protected_refs
        /\ (pc = "sweep" /\ sweep_todo # {}) =>
              \A digests \in DescriptorLists :
                  Range(digests) \cap protected_refs # {} =>
                      LET again == ProtectDigests(untagged_versions, digests)
                      IN /\ again.ok
                         /\ Names(again.versions) =
                               initial_untagged \ (protected_refs \cup Range(digests))
                         /\ Range(digests) \subseteq protected_refs =>
                               again.versions = untagged_versions

\* the sweep went through the manifests of two kept tags, an index among
\* them took a digest from the candidates, and a candidate is left
C34_Witness ==
    /\ entry = "untagged"
    /\ pc = "delete"
    /\ Cardinality(tags_to_keep) = 2
    /\ sweep_skipped = {}
    /\ protected_refs \cap initial_untagged # {}
    /\ untagged_versions # <<>>

----------------------------------------------------------------------------
(* Properties of the keep-set of an ephemeral run *)

\* C35: in an ephemeral run no tag is both in the deletion list and in the
\* keep-set, the verifier is called with the keep-set, and no tag of a
\* version that was sent a delete request is among the tags the verifier
\* is called with.
C35_KeepAndDeleteDisjoint ==
    entry = "ephemeral" =>
        /\ Range(tags_to_delete) \cap tags_to_keep = {}
        /\ verify_started => verify_tags = tags_to_keep
        /\ \A n \in DOMAIN registry_requests :
              /\ Range(registry_requests[n].tags) \cap tags_to_keep = {}
              /\ Range(registry_requests[n].tags) \cap verify_tags = {}

\* a version was deleted and the verifier was called with a tag that stays
C35_Witness ==
    /\ entry = "ephemeral"
    /\ registry_requests # <<>>
    /\ verify_started
    /\ verify_tags # {}

----------------------------------------------------------------------------
(* Properties of the progress of the verifier *)

\* C36: a tag check that holds the tag gate has created no digest task, so
\* the tag gate is never held while a digest task waits or fetches; a tag
\* check that has not sent its request can take the tag gate whenever that
\* gate has a free slot, however many digest fetches are in flight; and when
\* every ready task runs and every fetch returns, the run reaches its
\* verdict.
C36_VerifierProgress ==
    /\ [](pc = "check_tags" =>
            /\ \A t \in DOMAIN v_tag_state :
                  v_tag_state[t] = "fetching" => v_digest[t] = <<>>
            /\ \A t \in DOMAIN v_digest :
                  (\E k \in DOMAIN v_digest[t] :
                       v_digest[t][k].state \in {"waiting", "fetching"}) =>
                      v_tag_state[t] = "gathering"
            /\ ((\E t \in DOMAIN v_tag_state : v_tag_state[t] = "created")
                /\ Cardinality({t \in DOMAIN v_tag_state : v_tag_state[t] = "fetching"})
                      < v_tag_concurrency) =>
                  ENABLED TagAcquires)
    /\ <>(pc \in {"verified", "failed"})

\* the digest gate is full with a digest task waiting behind it, and the
\* second tag has nevertheless sent its request
C36_Witness ==
    /\ pc = "check_tags"
    /\ v_digest_concurrency = 2
    /\ Cardinality(DigestsFetching) = 2
    /\ \E t \in DOMAIN v_digest : \E k \in DOMAIN v_digest[t] :
          v_digest[t][k].state = "waiting"
    /\ \E t \in DOMAIN v_tag_state : v_tag_state[t] = "fetching"

----------------------------------------------------------------------------
(* Properties of the scopes of the token cache *)

\* the repository the path of request r names
RepositoryOf(r) == SubSeq(a_flow[r].path, 2, Len(a_flow[r].path) - 2)

\* C37: every token attached to a registry request was issued in answer to
\* a token request for the repository the request's own path names, so an
\* entry cached under one scope is never attached to a request of another
\* scope; a step that writes the cache entry of a scope is the token
\* response of a flow for that scope and leaves the entry of every other
\* scope as it was, and no step removes an entry.
C37_ScopeIsolation ==
    [][/\ \A r \in DOMAIN a_flow : \A n \in DOMAIN a_sent'[r] :
             (a_sent'[r][n].kind = "registry" /\ a_sent'[r][n].token # 0) =>
                 /\ a_sent'[r][n].scope = SubSeq(a_flow'[r].path, 2,
                                                  Len(a_flow'[r].path) - 2)
                 /\ \E q \in DOMAIN a_flow :
                       /\ Len(a_sent'[q]) = 3
                       /\ a_sent'[q][3].token = a_sent'[r][n].token
                       /\ a_sent'[q][2].kind = "token"
                       /\ a_sent'[q][2].scope = a_sent'[r][n].scope
                       /\ SubSeq(a_flow'[q].path, 2, Len(a_flow'[q].path) - 2) =
                             a_sent'[r][n].scope
       /\ DOMAIN a_tokens \subseteq DOMAIN a_tokens'
       /\ \A s \in DOMAIN a_tokens' :
             (s \notin DOMAIN a_tokens \/ a_tokens'[s] # a_tokens[s]) =>
                 /\ \E r \in DOMAIN a_flow :
                       /\ a_flow[r].pc = "token_sent"
                       /\ a_flow'[r].pc = "retry_sent"
                       /\ RepositoryOf(r) = s
                 /\ \A u \in DOMAIN a_tokens : u # s => a_tokens'[u] = a_tokens[u]]_vars

\* both repositories have an entry, each holding the token its own flow
\* fetched: the second was written while the first was in place
C37_Witness ==
    /\ Cardinality(DOMAIN a_tokens) = 2
    /\ \E r, q \in DOMAIN a_flow :
          /\ r # q
          /\ RepositoryOf(r) # RepositoryOf(q)
          /\ Len(a_sent[r]) = 3 /\ Len(a_sent[q]) = 3
          /\ a_tokens[RepositoryOf(r)].token = a_sent[r][3].token
          /\ a_tokens[RepositoryOf(q)].token = a_sent[q][3].token

----------------------------------------------------------------------------
(* Properties of a cached token the registry rejects *)

\* C38: the step that brings a 401 for a request sent with a cached token
\* ends the flow with that 401 as its response; it sends nothing, fetches no
\* token and leaves the cache as it is. The flow of such a request has sent
\* that one request only, and the cache is only ever written by the token
\* response of a flow whose first request went out without a token.
C38_RejectedTokenStaysCached ==
    [][/\ \A r \in DOMAIN a_flow :
             /\ (a_flow[r].pc = "cached_sent" /\ a_flow'[r].pc # "cached_sent") =>
                   /\ a_flow'[r].pc = "returned"
                   /\ a_flow'[r].error = ""
                   /\ a_flow'[r].status \in {200, 401}
                   /\ a_sent' = a_sent
                   /\ a_tokens' = a_tokens
                   /\ a_next_token' = a_next_token
             /\ (Len(a_sent'[r]) >= 1 /\ a_sent'[r][1].token # 0) =>
                   /\ Len(a_sent'[r]) = 1
                   /\ a_flow'[r].pc \in {"cached_sent", "returned"}
       /\ a_tokens' # a_tokens =>
             \E q \in DOMAIN a_flow :
                 /\ a_flow[q].pc = "token_sent"
                 /\ a_flow'[q].pc = "retry_sent"
                 /\ a_sent[q][1] = [kind |-> "registry", scope |-> a_flow[q].scope,
                                    token |-> 0]]_vars

\* a request sent with a cached token got a 401; the entry is still in the
\* cache, unexpired
C38_Witness ==
    \E r \in DOMAIN a_flow :
        /\ a_flow[r].pc = "returned"
        /\ a_flow[r].status = 401
        /\ Len(a_sent[r]) = 1
        /\ a_sent[r][1].token # 0
        /\ a_flow[r].scope \in DOMAIN a_tokens
        /\ a_tokens[a_flow[r].scope].token = a_sent[r][1].token
        /\ a_now < a_tokens[a_flow[r].scope].expires_at

----------------------------------------------------------------------------
(* Properties of the status handling of list() *)

\* C39: list() returns all or nothing: as soon as the first page or one of
\* the pages 2..N ends with a status other than 200, list() fails with an
\* HTTP error, and a list() that failed returns no items.
C39_ListAllOrNothing ==
    entry = "list" =>
        /\ l_logged # {} => (pc = "failed" /\ error = "HTTPStatusError")
        /\ pc = "failed" => l_returned = <<>>

\* the page numbers the `last` links of a Link header carry
LastLinkPages(header) ==
    {header[i].page : i \in {j \in DOMAIN header : header[j].rel = "last"}} \ {NoPage}

====
